---- MODULE Spec2Model ----
(***************************************************************************)
(* Store-rating REST backend: the relational tables (users, stores,        *)
(* ratings), the access-control gate, the rating handlers of               *)
(* routes/ratings.js, the store detail handler of routes/stores.js, the    *)
(* list endpoints and the admin router.  Every "await pool.query" of a     *)
(* handler is one atomic step; requests of different slots interleave      *)
(* between those steps.                                                    *)
(***************************************************************************)
EXTENDS Integers, Sequences, FiniteSets, TLC

VARIABLES
    users,          \* table users: set of rows [id, name, email, address, role, created_at]
    stores,         \* table stores: set of rows [id, name, address, email, owner_id, created_at]
    ratings,        \* table ratings: set of rows [id, user_id, store_id, rating, comment]
    nextRatingId,   \* sequence ratings_id_seq (SERIAL)
    nextUserId,     \* sequence users_id_seq
    nextStoreId,    \* sequence stores_id_seq
    req,            \* req[p]: the request handled in slot p, with the handler's locals
    accepted,       \* accepted[<<u, s>>]: accepted submissions of u for s since the row was last deleted
    clock,          \* number of INSERT statements executed so far (CURRENT_TIMESTAMP)
    fetched,        \* pages collected so far by a client walking a list endpoint
    registered,     \* accounts created by POST /auth/register whose password has not changed since
    ownerFk,        \* referential action of stores.owner_id in the installed schema
    user,           \* AuthProvider state: the signed-in user, NullUser for null
    token,          \* AuthProvider state: the token, NoCred for null
    loading,        \* AuthProvider state
    localStorage,   \* localStorage item 'token', NoCred when absent
    authorization,  \* axios.defaults.headers.common['Authorization'], NoCred when absent
    pending,        \* HTTP requests of the client in flight
    effectDue       \* token changed since the effect on [token] last ran

dbVars == <<users, stores, ratings, nextRatingId, nextUserId, nextStoreId>>
clientVars == <<user, token, loading, localStorage, authorization, pending, effectDue>>
serverVars == <<users, stores, ratings, nextRatingId, nextUserId, nextStoreId, req, accepted, clock,
                fetched, registered, ownerFk>>
vars == <<users, stores, ratings, nextRatingId, nextUserId, nextStoreId, req, accepted, clock, fetched,
          registered, ownerFk, clientVars>>

----------------------------------------------------------------------------
(* Bounds of the model *)

MaxRatingId == 2        \* ratings_id_seq values handed out
MaxUserId == 6          \* users_id_seq values handed out
MaxStoreId == 3         \* stores_id_seq values handed out

Slots == {1, 2}         \* request slots that may be in flight together
SeqSlots == {1}         \* one request at a time

Null == "null"

----------------------------------------------------------------------------
(* Schema: src/database/schema.sql *)

Roles == {"system_admin", "normal_user", "store_owner"}

\* ratings.rating CHECK (rating >= 1 AND rating <= 5), column type INTEGER
RatingCheck(v) == v >= 1 /\ v <= 5

RatingsUniqueViolation_None(tbl, u, s) == FALSE

\* UNIQUE(user_id, store_id): would adding a row for (u, s) violate it
RatingsUniqueViolation(tbl, u, s) ==
    \E r \in tbl : r.user_id = u /\ r.store_id = s

\* the sample users and stores of the initialisation script, no rating yet;
\* created_at is the number of the INSERT statement that wrote the row
\* bcrypt.hash(password, saltRounds): the salt is left out, the hash is not the password
Hash(password) == <<"bcrypt", password>>

\* bcrypt.compare(password, hash)
Compare_Plain(password, hash) == hash = password
Compare(password, hash) == hash = Hash(password)

SeedUsers ==
    { [id |-> 1, name |-> "System Administrator", email |-> "admin@system.com", password_hash |-> Hash("Admin@123"),
       address |-> "System Address - 123 Admin Street, Admin City, AC 12345", role |-> "system_admin", created_at |-> 1],
      [id |-> 2, name |-> "John Doe - Normal User Example", email |-> "user@example.com", password_hash |-> Hash("User@123"),
       address |-> "123 Main Street, Example City, EC 12345", role |-> "normal_user", created_at |-> 2],
      [id |-> 3, name |-> "Jane Smith - Another Normal User", email |-> "jane@example.com", password_hash |-> Hash("User@123"),
       address |-> "456 Oak Avenue, Sample Town, ST 67890", role |-> "normal_user", created_at |-> 2],
      [id |-> 4, name |-> "Mike Johnson - Store Owner Example", email |-> "store@example.com", password_hash |-> Hash("Store@123"),
       address |-> "789 Business Blvd, Commerce City, CC 11111", role |-> "store_owner", created_at |-> 3],
      [id |-> 5, name |-> "Sarah Wilson - Another Store Owner", email |-> "sarah@example.com", password_hash |-> Hash("Store@123"),
       address |-> "321 Retail Road, Market Town, MT 22222", role |-> "store_owner", created_at |-> 3] }

SeedStores ==
    { [id |-> 1, name |-> "Local Grocery Store", address |-> "100 Main Street, City Center, CC 33333",
       email |-> "grocery@store.com", owner_id |-> 4, created_at |-> 4],
      [id |-> 2, name |-> "City Market", address |-> "200 Market Way, Downtown, DT 44444",
       email |-> "market@city.com", owner_id |-> 5, created_at |-> 4] }

----------------------------------------------------------------------------
(* Requests *)

NoCred == [valid |-> FALSE, id |-> 0, role |-> "none"]

Token(u) == [valid |-> TRUE, id |-> u.id, role |-> u.role]

\* a rating value of a request body: an integer v, or something that is not an integer
IntVal(v) == [int |-> TRUE, v |-> v]
NotAnInt == [int |-> FALSE, v |-> 0]

Absent == "<absent>"

\* req.query of a list request
NoQuery == [search |-> Absent, role |-> Absent, sortBy |-> Absent, sortOrder |-> Absent,
            page |-> Absent, limit |-> Absent, period |-> Absent]

\* the rows and the pagination object of a list response
NoList == [rows |-> <<>>, currentPage |-> 0, totalPages |-> 0, total |-> 0, limit |-> 0]

\* req.body of a creation request
NoForm == [name |-> Absent, email |-> Absent, address |-> Absent, role |-> Absent, ownerId |-> 0,
           password |-> Absent, newPassword |-> Absent]

\* the pages a client has collected of one listing, and the tables they were read from
NoWalk == [endpoint |-> "none", q |-> NoQuery, pages |-> <<>>, db |-> <<>>]

Idle ==
    [op |-> "idle", pc |-> "idle", cred |-> NoCred, arg |-> 0,
     rating |-> NotAnInt, comment |-> Null, existing |-> {},
     status |-> 0, msg |-> "", wrote |-> {}, handler |-> "none",
     body |-> [num |-> 0, den |-> 1, total |-> 0],
     pre |-> {}, race |-> "no",
     endpoint |-> "none", q |-> NoQuery, list |-> NoList, form |-> NoForm,
     preUsers |-> {}, preStores |-> {}, stages |-> <<>>, token |-> NoCred,
     sql |-> <<>>, keys |-> {}, dbError |-> FALSE,
     stats |-> [totalRatings |-> 0, positiveRatings |-> 0, negativeRatings |-> 0, min |-> 0,
               max |-> 0, ratingDistribution |-> <<>>, customerSatisfaction |-> 0]]

\* the answer of a request: res.status(s).json({message: m})
Respond(r, s, m) == [r EXCEPT !.pc = "done", !.status = s, !.msg = m]

----------------------------------------------------------------------------
(* Middleware (middleware/auth.js, middleware/validation.js) *)

\* authenticateToken: a request without a valid credential is answered 401
authenticateToken(cred) == cred.valid

\* requireRole(allowed): the attached role must be in the allow-set, else 403
requireRole(allowed, cred) == cred.role \in allowed

\* validateRating: rating must be an integer between 1 and 5
validateRating(rating) == rating.int /\ rating.v >= 1 /\ rating.v <= 5

----------------------------------------------------------------------------
(* Routing: express matches the routes of a router in registration order   *)
(* and the first handler that answers ends the request.                    *)

\* a pattern segment ":" is a path parameter and matches any segment
SegMatch(pat, seg) == pat = ":" \/ pat = seg

PathMatch(pattern, path) ==
    /\ Len(pattern) = Len(path)
    /\ \A i \in 1..Len(pattern) : SegMatch(pattern[i], path[i])

\* routes/ratings.js, in registration order
RatingsRoutes ==
    << [method |-> "POST",   pattern |-> <<":">>, handler |-> "postRating"],
       [method |-> "PUT",    pattern |-> <<":">>, handler |-> "putRating"],
       [method |-> "DELETE", pattern |-> <<":">>, handler |-> "deleteByRatingId"],
       [method |-> "GET",    pattern |-> <<"user", "insights">>, handler |-> "userInsights"],
       [method |-> "GET",    pattern |-> <<"user", "recommendations">>, handler |-> "userRecommendations"],
       [method |-> "GET",    pattern |-> <<"user">>, handler |-> "userRatings"],
       [method |-> "GET",    pattern |-> <<"user", ":">>, handler |-> "userStoreRating"],
       [method |-> "GET",    pattern |-> <<"user", "stats">>, handler |-> "userStats"],
       [method |-> "DELETE", pattern |-> <<":">>, handler |-> "deleteByStoreId"] >>

\* the handler that serves a request: the first route whose method and pattern match
Dispatch(routes, method, path) ==
    LET hits == { i \in 1..Len(routes) :
                    routes[i].method = method /\ PathMatch(routes[i].pattern, path) }
    IN  IF hits = {} THEN "none"
        ELSE routes[CHOOSE i \in hits : \A j \in hits : i <= j].handler

\* path parameters arrive as text; the integer columns they are compared with parse them
IdSegs == {"1", "2", "3"}
ParamId(seg) == CASE seg = "1" -> 1 [] seg = "2" -> 2 [] seg = "3" -> 3 [] OTHER -> 0

----------------------------------------------------------------------------
(* Queries of routes/ratings.js *)

\* SELECT id FROM stores WHERE id = $1
StoreById(id) == { s \in stores : s.id = id }

\* SELECT id, rating, comment FROM ratings WHERE user_id = $1 AND store_id = $2
RatingOfUserForStore(u, s) == { r \in ratings : r.user_id = u /\ r.store_id = s }

RatingByIdOfUser_AnyUser(id, u) == { r \in ratings : r.id = id }

\* SELECT id, store_id FROM ratings WHERE id = $1 AND user_id = $2
RatingByIdOfUser(id, u) == { r \in ratings : r.id = id /\ r.user_id = u }

\* comment || null
CommentOrNull(c) == IF c = Null \/ c = "" THEN Null ELSE c

\* a value the INTEGER column rating accepts: an integer that passes the CHECK
RatingColumnOk(rating) == rating.int /\ RatingCheck(rating.v)

UpdateByUserStore_KeepComment(u, s, v, c) ==
    { IF r.user_id = u /\ r.store_id = s THEN [r EXCEPT !.rating = v] ELSE r : r \in ratings }

\* UPDATE ratings SET rating = $1, comment = $2 WHERE user_id = $3 AND store_id = $4
UpdateByUserStore(u, s, v, c) ==
    { IF r.user_id = u /\ r.store_id = s THEN [r EXCEPT !.rating = v, !.comment = c] ELSE r
        : r \in ratings }

\* UPDATE ratings SET rating = $1, comment = $2 WHERE id = $3
UpdateById(id, v, c) ==
    { IF r.id = id THEN [r EXCEPT !.rating = v, !.comment = c] ELSE r : r \in ratings }

\* the foreign keys of a new ratings row
RatingForeignKeysOk(u, s) ==
    (\E x \in users : x.id = u) /\ (\E x \in stores : x.id = s)

Bump(n) == IF n < 2 THEN n + 1 ELSE 2

Free(p) == req[p].pc \in {"idle", "done"}

\* POST requests that may still draw a value of ratings_id_seq
PendingInserts == { q \in Slots : req[q].op = "POST" /\ req[q].pc \in {"existing", "write"} }

\* does a middleware chain contain middleware m
Uses(chain, m) == \E i \in 1..Len(chain) : chain[i] = m

\* the middleware in front of each rating handler: router.use(...) first, then the route's own
PostRatingChain_NoValidation == <<"authenticateToken">>
PostRatingChain == <<"authenticateToken", "validateRating">>
PutRatingChain == <<"authenticateToken", "validateRating">>
DeleteRatingChain == <<"authenticateToken", "authenticateToken">>

\* the stage of request processing a middleware belongs to
StageOf(mw) ==
    IF mw = "authenticateToken" THEN "credential"
    ELSE IF mw = "requireRole" THEN "role"
    ELSE "validation"

\* the status a middleware answers when it rejects the request
RejectStatus(mw) ==
    IF mw = "authenticateToken" THEN 401 ELSE IF mw = "requireRole" THEN 403 ELSE 400

RejectMessage(status) ==
    IF status = 401 THEN "Access token required"
    ELSE IF status = 403 THEN "Insufficient permissions"
    ELSE "Validation failed"

\* express runs the middleware of a route in registration order until one of them answers:
\* the status of the answer (0 when the request reaches the handler) and the stages decided
RECURSIVE RunChain(_, _, _, _)
RunChain(chain, cred, allowed, bodyOk) ==
    IF chain = <<>> THEN [status |-> 0, stages |-> <<>>]
    ELSE LET mw == Head(chain)
             pass == IF mw = "authenticateToken" THEN authenticateToken(cred)
                     ELSE IF mw = "requireRole" THEN requireRole(allowed, cred)
                     ELSE bodyOk
             rest == RunChain(Tail(chain), cred, allowed, bodyOk)
         IN  IF pass THEN [status |-> rest.status, stages |-> <<StageOf(mw)>> \o rest.stages]
             ELSE [status |-> RejectStatus(mw), stages |-> <<StageOf(mw)>>]

----------------------------------------------------------------------------
(* POST /api/ratings/:storeId  (routes/ratings.js 12-78) *)

\* router.use(authenticateToken), validateRating, then the handler up to its first query
PostRating(p, seg, cred, rating, comment) ==
    /\ Free(p)
    /\ nextRatingId + Cardinality(PendingInserts) <= MaxRatingId
    /\ LET r0 == [Idle EXCEPT !.op = "POST", !.pre = ratings, !.cred = cred, !.arg = ParamId(seg),
                              !.rating = rating, !.comment = comment,
                              !.handler = Dispatch(RatingsRoutes, "POST", <<seg>>)]
           run == RunChain(PostRatingChain, cred, {}, validateRating(rating))
           r1 == [r0 EXCEPT !.stages = run.stages \o <<"database">>]
       IN  req' = [req EXCEPT ![p] =
                IF run.status # 0
                THEN Respond([r0 EXCEPT !.stages = run.stages], run.status, RejectMessage(run.status))
                ELSE IF StoreById(r0.arg) = {} THEN Respond(r1, 404, "Store not found")
                ELSE [r1 EXCEPT !.pc = "existing"]]
    /\ UNCHANGED <<dbVars, accepted, clock, fetched, registered, ownerFk, clientVars>>

\* const existingRating = await pool.query(SELECT ... WHERE user_id = $1 AND store_id = $2)
PostExisting(p) ==
    /\ req[p].op = "POST" /\ req[p].pc = "existing"
    /\ req' = [req EXCEPT ![p].existing = RatingOfUserForStore(req[p].cred.id, req[p].arg),
                          ![p].pc = "write"]
    /\ UNCHANGED <<dbVars, accepted, clock, fetched, registered, ownerFk, clientVars>>

\* the UPDATE of the update branch or the INSERT of the create branch
PostWrite(p) ==
    /\ req[p].op = "POST" /\ req[p].pc = "write"
    /\ LET r == req[p]
           u == r.cred.id
           s == r.arg
           c == CommentOrNull(r.comment)
           hit == RatingOfUserForStore(u, s)
           row == [id |-> nextRatingId, user_id |-> u, store_id |-> s,
                   rating |-> r.rating.v, comment |-> c]
           \* history: the other requests that also saw no row and have not written yet
           rivals == IF r.existing # {} THEN {}
                     ELSE { q \in Slots \ {p} : /\ req[q].op = "POST" /\ req[q].pc = "write"
                                                /\ req[q].existing = {}
                                                /\ req[q].cred.id = u /\ req[q].arg = s }
           mark == IF rivals # {} THEN "first" ELSE r.race
           Others(me) == [x \in Slots |->
                            IF x = p THEN me
                            ELSE IF x \in rivals THEN [req[x] EXCEPT !.race = "second"]
                            ELSE req[x]]
       IN  IF r.existing # {}
           THEN IF ~r.rating.int \/ (hit # {} /\ ~RatingCheck(r.rating.v))
                THEN /\ req' = [req EXCEPT ![p] = Respond(r, 500, "Internal server error")]
                     /\ UNCHANGED <<ratings, nextRatingId>>
                ELSE /\ ratings' = UpdateByUserStore(u, s, r.rating.v, c)
                     /\ req' = [req EXCEPT ![p].wrote = hit, ![p].pc = "stats"]
                     /\ UNCHANGED nextRatingId
           ELSE /\ nextRatingId' = nextRatingId + 1
                /\ IF \/ ~RatingColumnOk(r.rating)
                      \/ ~RatingForeignKeysOk(u, s)
                      \/ RatingsUniqueViolation(ratings, u, s)
                   THEN /\ req' = Others(Respond([r EXCEPT !.race = mark], 500,
                                                 "Internal server error"))
                        /\ UNCHANGED ratings
                   ELSE /\ ratings' = ratings \cup { row }
                        /\ req' = Others([r EXCEPT !.wrote = { row }, !.race = mark,
                                                   !.pc = "stats"])
    /\ UNCHANGED <<users, stores, nextUserId, nextStoreId, accepted, clock, fetched, registered, ownerFk, clientVars>>

\* the store statistics query, then res.json (update branch) or res.status(201).json
PostStats(p) ==
    /\ req[p].op = "POST" /\ req[p].pc = "stats"
    /\ LET r == req[p]
       IN  /\ req' = [req EXCEPT ![p] =
                    IF r.existing # {} THEN Respond(r, 200, "Rating updated successfully")
                    ELSE Respond(r, 201, "Rating submitted successfully")]
           /\ accepted' = [accepted EXCEPT ![<<r.cred.id, r.arg>>] = Bump(@)]
    /\ UNCHANGED <<dbVars, clock, fetched, registered, ownerFk, clientVars>>

----------------------------------------------------------------------------
(* PUT /api/ratings/:ratingId  (routes/ratings.js 81-124) *)

\* authenticateToken, validateRating, then the ownership query
PutRating(p, seg, cred, rating, comment) ==
    /\ Free(p)
    /\ LET r0 == [Idle EXCEPT !.op = "PUT", !.pre = ratings, !.cred = cred, !.arg = ParamId(seg),
                              !.rating = rating, !.comment = comment,
                              !.handler = Dispatch(RatingsRoutes, "PUT", <<seg>>)]
           found == RatingByIdOfUser(r0.arg, cred.id)
           run == RunChain(PutRatingChain, cred, {}, validateRating(rating))
           r1 == [r0 EXCEPT !.stages = run.stages \o <<"database">>]
       IN  req' = [req EXCEPT ![p] =
                IF run.status # 0
                THEN Respond([r0 EXCEPT !.stages = run.stages], run.status, RejectMessage(run.status))
                ELSE IF found = {} THEN Respond(r1, 404, "Rating not found or unauthorized")
                ELSE [r1 EXCEPT !.existing = found, !.pc = "write"]]
    /\ UNCHANGED <<dbVars, accepted, clock, fetched, registered, ownerFk, clientVars>>

\* UPDATE ratings SET ... WHERE id = $3
PutWrite(p) ==
    /\ req[p].op = "PUT" /\ req[p].pc = "write"
    /\ LET r == req[p]
           hit == { x \in ratings : x.id = r.arg }
       IN  IF ~r.rating.int \/ (hit # {} /\ ~RatingCheck(r.rating.v))
           THEN /\ req' = [req EXCEPT ![p] = Respond(r, 500, "Internal server error")]
                /\ UNCHANGED ratings
           ELSE /\ ratings' = UpdateById(r.arg, r.rating.v, CommentOrNull(r.comment))
                /\ req' = [req EXCEPT ![p].wrote = hit, ![p].pc = "stats"]
    /\ UNCHANGED <<users, stores, nextRatingId, nextUserId, nextStoreId, accepted, clock, fetched, registered, ownerFk, clientVars>>

PutStats(p) ==
    /\ req[p].op = "PUT" /\ req[p].pc = "stats"
    /\ req' = [req EXCEPT ![p] = Respond(req[p], 200, "Rating updated successfully")]
    /\ UNCHANGED <<dbVars, accepted, clock, fetched, registered, ownerFk, clientVars>>

----------------------------------------------------------------------------
(* DELETE /api/ratings/:x  (routes/ratings.js 127-164 and 453-478) *)

\* authenticateToken, then the existence query of the handler the request is dispatched to
DeleteRating(p, seg, cred) ==
    /\ Free(p)
    /\ LET r0 == [Idle EXCEPT !.op = "DELETE", !.pre = ratings, !.cred = cred, !.arg = ParamId(seg),
                              !.handler = Dispatch(RatingsRoutes, "DELETE", <<seg>>)]
           found == IF r0.handler = "deleteByRatingId"
                    THEN RatingByIdOfUser(r0.arg, cred.id)
                    ELSE RatingOfUserForStore(cred.id, r0.arg)
           run == RunChain(DeleteRatingChain, cred, {}, TRUE)
           r1 == [r0 EXCEPT !.stages = run.stages \o <<"database">>]
       IN  req' = [req EXCEPT ![p] =
                IF run.status # 0
                THEN Respond([r0 EXCEPT !.stages = run.stages], run.status, RejectMessage(run.status))
                ELSE IF found = {}
                     THEN Respond(r1, 404, IF r0.handler = "deleteByRatingId"
                                           THEN "Rating not found or unauthorized"
                                           ELSE "Rating not found")
                ELSE [r1 EXCEPT !.existing = found, !.pc = "write"]]
    /\ UNCHANGED <<dbVars, accepted, clock, fetched, registered, ownerFk, clientVars>>

\* DELETE FROM ratings WHERE id = $1   /   WHERE user_id = $1 AND store_id = $2
DeleteWrite(p) ==
    /\ req[p].op = "DELETE" /\ req[p].pc = "write"
    /\ LET r == req[p]
           hit == IF r.handler = "deleteByRatingId"
                  THEN { x \in ratings : x.id = r.arg }
                  ELSE RatingOfUserForStore(r.cred.id, r.arg)
       IN  /\ ratings' = ratings \ hit
           /\ accepted' = [k \in DOMAIN accepted |->
                             IF \E x \in hit : k = <<x.user_id, x.store_id>>
                             THEN 0 ELSE accepted[k]]
           /\ req' = [req EXCEPT ![p] =
                    IF r.handler = "deleteByRatingId"
                    THEN [r EXCEPT !.wrote = hit, !.pc = "stats"]
                    ELSE Respond([r EXCEPT !.wrote = hit], 200, "Rating deleted successfully")]
    /\ UNCHANGED <<users, stores, nextRatingId, nextUserId, nextStoreId, clock, fetched, registered, ownerFk, clientVars>>

DeleteStats(p) ==
    /\ req[p].op = "DELETE" /\ req[p].pc = "stats"
    /\ req' = [req EXCEPT ![p] = Respond(req[p], 200, "Rating deleted successfully")]
    /\ UNCHANGED <<dbVars, accepted, clock, fetched, registered, ownerFk, clientVars>>

----------------------------------------------------------------------------
(* GET /api/stores/:id  (routes/stores.js 82-109) *)

RECURSIVE SumRatings(_)
SumRatings(rows) ==
    IF rows = {} THEN 0
    ELSE LET x == CHOOSE y \in rows : TRUE IN x.rating + SumRatings(rows \ {x})

NullRating == [id |-> 0, user_id |-> 0, store_id |-> 0, rating |-> 0, comment |-> Null]

\* FROM stores s LEFT JOIN ratings r ON s.id = r.store_id WHERE s.id = $1:
\* the ratings of the store, or one all-NULL ratings row when it has none
LeftJoinRatings(s) ==
    LET rs == { r \in ratings : r.store_id = s.id }
    IN  IF rs = {} THEN { NullRating } ELSE rs

CountRatingId_Star(joined) == Cardinality(joined)

\* COUNT(r.id): the joined rows whose r.id is not NULL
CountRatingId(joined) == Cardinality({ r \in joined : r.id # 0 })

\* COALESCE(AVG(r.rating), 0): the mean of the non-NULL values as a fraction num/den
CoalesceAvgRating(joined) ==
    LET vals == { r \in joined : r.id # 0 }
    IN  IF vals = {} THEN [num |-> 0, den |-> 1]
        ELSE [num |-> SumRatings(vals), den |-> Cardinality(vals)]

GetStore(p, seg) ==
    /\ Free(p)
    /\ LET r0 == [Idle EXCEPT !.op = "GET_STORE", !.pre = ratings, !.arg = ParamId(seg), !.handler = "storeDetails"]
           found == StoreById(r0.arg)
       IN  req' = [req EXCEPT ![p] =
                IF found = {} THEN Respond(r0, 404, "Store not found")
                ELSE LET j == LeftJoinRatings(CHOOSE s \in found : TRUE)
                         avg == CoalesceAvgRating(j)
                     IN  Respond([r0 EXCEPT !.body = [num |-> avg.num, den |-> avg.den,
                                                      total |-> CountRatingId(j)]],
                                 200, "")]
    /\ UNCHANGED <<dbVars, accepted, clock, fetched, registered, ownerFk, clientVars>>

----------------------------------------------------------------------------
(* The rating service: specifications *)

UserIds == 1..MaxUserId
StoreIds == 1..MaxStoreId

RaterCreds == { Token(u) : u \in { x \in SeedUsers : x.role = "normal_user" } }

ValidBodies ==
    { [rating |-> IntVal(1), comment |-> Null],
      [rating |-> IntVal(5), comment |-> "good"],
      [rating |-> IntVal(5), comment |-> ""] }

InvalidBodies ==
    { [rating |-> IntVal(0), comment |-> Null],
      [rating |-> IntVal(6), comment |-> "good"],
      [rating |-> NotAnInt, comment |-> Null] }

\* the requests of the sequential specification: [seg, cred, body]
SeqTargets == { [seg |-> s, cred |-> c] : s \in IdSegs, c \in RaterCreds }
                  \cup { [seg |-> "1", cred |-> NoCred] }
SeqWrites == { [seg |-> t.seg, cred |-> t.cred, body |-> b] : t \in SeqTargets, b \in ValidBodies }
                 \cup { [seg |-> s, cred |-> Token(CHOOSE u \in SeedUsers : u.id = 2), body |-> b] :
                           s \in IdSegs, b \in InvalidBodies }

\* useState(null) for user, and the user object of a response
NullUser == [id |-> 0, role |-> "none"]
UserData(cred) == [id |-> cred.id, role |-> cred.role]

\* a request in flight: its kind and the credential it carries or asks for
Request(kind, cred) == [kind |-> kind, cred |-> cred]

\* the state of the provider before it is mounted in a session without a stored token
InitClientAtRest ==
    /\ user = NullUser
    /\ token = NoCred
    /\ loading = TRUE
    /\ localStorage = NoCred
    /\ authorization = NoCred
    /\ pending = {}
    /\ effectDue = FALSE

Init ==
    /\ users = SeedUsers
    /\ stores = SeedStores
    /\ ratings = {}
    /\ nextRatingId = 1
    /\ nextUserId = 6
    /\ nextStoreId = 3
    /\ req = [p \in Slots |-> Idle]
    /\ accepted = [k \in UserIds \X StoreIds |-> 0]
    /\ clock = 5
    /\ fetched = NoWalk
    /\ registered = {}
    /\ ownerFk = "NO ACTION"
    /\ InitClientAtRest

RatingStep(p, writes, targets) ==
    \/ \E w \in writes : PostRating(p, w.seg, w.cred, w.body.rating, w.body.comment)
    \/ PostExisting(p)
    \/ PostWrite(p)
    \/ PostStats(p)
    \/ \E w \in writes : PutRating(p, w.seg, w.cred, w.body.rating, w.body.comment)
    \/ PutWrite(p)
    \/ PutStats(p)
    \/ \E t \in targets : DeleteRating(p, t.seg, t.cred)
    \/ DeleteWrite(p)
    \/ DeleteStats(p)
    \/ \E seg \in IdSegs : GetStore(p, seg)

\* the requests of the concurrent specification
ConcTargets == { [seg |-> "1", cred |-> c] : c \in RaterCreds }
ConcWrites == { [seg |-> t.seg, cred |-> t.cred, body |-> b] :
                  t \in ConcTargets,
                  b \in { [rating |-> IntVal(1), comment |-> Null],
                          [rating |-> IntVal(5), comment |-> "good"] } }

\* requests of both slots interleave at every query
Next == \E p \in Slots : RatingStep(p, ConcWrites, ConcTargets)
Spec == Init /\ [][Next]_vars

\* one request at a time
NextSeq == \E p \in SeqSlots : RatingStep(p, SeqWrites, SeqTargets)
SpecSeq == Init /\ [][NextSeq]_vars

----------------------------------------------------------------------------
(* Properties of the rating service *)

Done(p) == req[p].pc = "done"
Authed(p) == req[p].cred.valid
ValidRating(x) == x.int /\ x.v \in 1..5
RowsOf(tbl, u, s) == { x \in tbl : x.user_id = u /\ x.store_id = s }

\* C1 as stated: after two or more accepted submissions of U for S there is exactly one
\* row for (U,S) carrying the rating and the comment of the latest submission; the first
\* accepted submission is answered 201 and every later one 200.
C1_UpsertLawLiteral ==
    \A p \in SeqSlots :
        (req[p].op = "POST" /\ Done(p) /\ req[p].status \in {200, 201}) =>
            LET k == <<req[p].cred.id, req[p].arg>>
                rows == RowsOf(ratings, k[1], k[2])
            IN  /\ (accepted[k] = 1 => req[p].status = 201)
                /\ (accepted[k] = 2 =>
                      /\ req[p].status = 200
                      /\ Cardinality(rows) = 1
                      /\ \A x \in rows : x.rating = req[p].rating.v /\ x.comment = req[p].comment)

\* C1 amended: as C1, except that an empty comment of the submission is stored as NULL.
C1_UpsertLaw ==
    \A p \in SeqSlots :
        (req[p].op = "POST" /\ Done(p) /\ req[p].status \in {200, 201}) =>
            LET k == <<req[p].cred.id, req[p].arg>>
                rows == RowsOf(ratings, k[1], k[2])
            IN  /\ (accepted[k] = 1 => req[p].status = 201)
                /\ (accepted[k] = 2 =>
                      /\ req[p].status = 200
                      /\ Cardinality(rows) = 1
                      /\ \A x \in rows :
                            /\ x.rating = req[p].rating.v
                            /\ x.comment = IF req[p].comment = "" THEN Null ELSE req[p].comment)

\* a second accepted submission with an empty comment has been answered
C1_Witness ==
    \E p \in SeqSlots :
        /\ req[p].op = "POST" /\ Done(p) /\ req[p].status = 200
        /\ accepted[<<req[p].cred.id, req[p].arg>>] = 2
        /\ req[p].comment = ""
        /\ \E x \in req[p].pre : x.user_id = req[p].cred.id /\ x.store_id = req[p].arg
                                   /\ x.comment = "good"

\* C2: in every reachable state, whatever the interleaving of POST, PUT and DELETE
\* requests, the ratings table holds at most one row per (user_id, store_id).
C2_OneRowPerPair ==
    \A x, y \in ratings : (x.user_id = y.user_id /\ x.store_id = y.store_id) => x = y

\* a request that saw no row is about to insert although the row exists meanwhile
C2_Witness ==
    \E p \in Slots :
        /\ req[p].op = "POST" /\ req[p].pc = "write" /\ req[p].existing = {}
        /\ RowsOf(ratings, req[p].cred.id, req[p].arg) # {}

\* C3: of two first-time POSTs of one user for one store that both ran the existence
\* check before either inserted, one insert succeeds and is answered 201, the other is
\* answered the generic 500 without writing, and the stored value is that of the 201.
C3_RaceOutcome ==
    \A p, q \in Slots :
        (p # q /\ req[p].race = "first" /\ req[q].race = "second" /\ Done(p) /\ Done(q)) =>
            /\ req[p].status = 201
            /\ req[q].status = 500 /\ req[q].msg = "Internal server error"
            /\ req[q].wrote = {}
            /\ RowsOf(ratings, req[p].cred.id, req[p].arg) = req[p].wrote
            /\ \A x \in req[p].wrote : x.rating = req[p].rating.v

\* both racing requests have been answered and they submitted different values
C3_Witness ==
    \E p, q \in Slots :
        /\ p # q /\ req[p].race = "first" /\ req[q].race = "second" /\ Done(p) /\ Done(q)
        /\ req[p].rating # req[q].rating
        /\ req[q].status = 500

\* C4: a POST or PUT whose rating is not an integer in 1..5 changes no rating row and,
\* once past the access-control gate, is answered with the validation error 400; every
\* stored rating value is in 1..5.
C4_InvalidRatingRejected ==
    /\ \A x \in ratings : x.rating \in 1..5
    /\ \A p \in SeqSlots :
          (req[p].op \in {"POST", "PUT"} /\ Done(p) /\ ~ValidRating(req[p].rating)) =>
              /\ ratings = req[p].pre
              /\ Authed(p) => req[p].status = 400

\* an out-of-range update of the caller's own existing rating has been rejected
C4_Witness ==
    \E p \in SeqSlots :
        /\ req[p].op = "PUT" /\ Done(p) /\ Authed(p) /\ req[p].rating = IntVal(6)
        /\ req[p].status = 400
        /\ \E x \in ratings : x.id = req[p].arg /\ x.user_id = req[p].cred.id

\* C5: GET /stores/:id reports total_ratings = number of rating rows of the store and
\* average_rating = their mean (average x count = sum), and 0 and 0 without rows.
C5_StoreAggregate ==
    \A p \in SeqSlots :
        (req[p].op = "GET_STORE" /\ Done(p) /\ req[p].status = 200) =>
            LET rows == { x \in ratings : x.store_id = req[p].arg }
                b == req[p].body
            IN  /\ b.total = Cardinality(rows)
                /\ b.num * b.total = SumRatings(rows) * b.den
                /\ b.num * Cardinality(rows) = SumRatings(rows) * b.den
                /\ b.den > 0
                /\ rows = {} => (b.num = 0 /\ b.total = 0)

\* a store with two different rating values has been read
C5_Witness ==
    \E p \in SeqSlots :
        /\ req[p].op = "GET_STORE" /\ Done(p) /\ req[p].status = 200
        /\ req[p].body.total = 2 /\ req[p].body.num = 6

\* C6: DELETE /ratings/:storeId removes exactly the caller's rating row of that store
\* when it exists (200) and answers 404 and removes nothing when it does not.
C6_DeleteByStore ==
    \A p \in SeqSlots :
        (req[p].op = "DELETE" /\ Done(p) /\ Authed(p)) =>
            LET mine == RowsOf(req[p].pre, req[p].cred.id, req[p].arg)
            IN  IF mine # {}
                THEN req[p].status = 200 /\ ratings = req[p].pre \ mine
                ELSE req[p].status = 404 /\ ratings = req[p].pre

\* C7: a PUT or DELETE /ratings/:ratingId naming a rating that does not exist or belongs
\* to another user leaves every rating row unchanged and, for an authenticated request
\* with a valid body, is answered 404 'Rating not found or unauthorized'.
C7_ForeignRatingUntouched ==
    \A p \in SeqSlots :
        (/\ req[p].op \in {"PUT", "DELETE"} /\ Done(p)
         /\ ~\E x \in req[p].pre : x.id = req[p].arg /\ x.user_id = req[p].cred.id) =>
            /\ ratings = req[p].pre
            /\ (Authed(p) /\ (req[p].op = "PUT" => ValidRating(req[p].rating))) =>
                  (req[p].status = 404 /\ req[p].msg = "Rating not found or unauthorized")

\* a delete of another user's existing rating has been refused
C7_Witness ==
    \E p \in SeqSlots :
        /\ req[p].op = "DELETE" /\ Done(p) /\ Authed(p) /\ req[p].status = 404
        /\ \E x \in ratings : x.id = req[p].arg /\ x.user_id # req[p].cred.id

----------------------------------------------------------------------------
(* List endpoints: GET /api/stores (routes/stores.js 8-79),                *)
(* GET /api/admin/users (routes/admin.js 237-308),                         *)
(* GET /api/admin/stores (routes/admin.js 390-459)                         *)

\* the text values of the model in the order of the database collation
CollateOrder ==
    << "100 Main Street, City Center, CC 33333", "123 Main Street, Example City, EC 12345",
       "12 New Road, Example City, EC 12345", "200 Market Way, Downtown, DT 44444",
       "300 Market Way, Downtown, DT 44444", "321 Retail Road, Market Town, MT 22222",
       "456 Oak Avenue, Sample Town, ST 67890",
       "789 Business Blvd, Commerce City, CC 11111", "admin@system.com",
       "Anna Brown - A Newly Created User", "anna@example.com", "City Market",
       "City Market Downtown Branch", "grocery@store.com", "jane@example.com",
       "Jane Smith - Another Normal User", "John Doe - Normal User Example",
       "Local Grocery Store", "market@city.com", "Mike Johnson - Store Owner Example",
       "normal_user", "omar@example.com", "Omar Khan - A Second Store Owner",
       "sarah@example.com", "Sarah Wilson - Another Store Owner", "second@city.com",
       "store@example.com", "store_owner", "System Address - 123 Admin Street, Admin City, AC 12345", "system_admin",
       "System Administrator", "third@city.com", "user@example.com" >>

Collate(x) == CHOOSE i \in 1..Len(CollateOrder) : CollateOrder[i] = x

\* text ILIKE '%term%' for the search terms of the model
ILike(text, term) ==
    \/ /\ term = "market"
       /\ text \in { "City Market", "City Market Downtown Branch", "market@city.com",
                     "200 Market Way, Downtown, DT 44444", "300 Market Way, Downtown, DT 44444",
                     "321 Retail Road, Market Town, MT 22222" }
    \/ /\ term = "example"
       /\ text \in { "user@example.com", "jane@example.com", "store@example.com",
                     "sarah@example.com", "anna@example.com", "omar@example.com", "John Doe - Normal User Example",
                     "Mike Johnson - Store Owner Example",
                     "123 Main Street, Example City, EC 12345",
                     "12 New Road, Example City, EC 12345" }

\* String.prototype.toLowerCase on the sort orders of the model
ToLowerCase(x) == IF x = "DESC" THEN "desc" ELSE IF x = "ASC" THEN "asc" ELSE x

\* String.prototype.toUpperCase on the sort orders of the model
ToUpperCase(x) == IF x = "desc" THEN "DESC" ELSE IF x = "asc" THEN "ASC" ELSE x

\* numeric value of a page or limit parameter: a decimal string of the query
ToNumber(x) == CASE x = "1" -> 1 [] x = "2" -> 2 [] x = "3" -> 3 [] x = "4" -> 4

\* const { sortBy = 'name', sortOrder = 'asc', page = 1, limit = 20 } = req.query
DefaultSortBy(endpoint) == "name"
DefaultSortOrder(endpoint) == "asc"
SortByOf(endpoint, q) == IF q.sortBy = Absent THEN DefaultSortBy(endpoint) ELSE q.sortBy
SortOrderOf(endpoint, q) == IF q.sortOrder = Absent THEN DefaultSortOrder(endpoint) ELSE q.sortOrder
PageOf(q) == IF q.page = Absent THEN 1 ELSE ToNumber(q.page)
LimitOf(q) == IF q.limit = Absent THEN 20 ELSE ToNumber(q.limit)

AllowedSortFields(endpoint) ==
    CASE endpoint = "stores" -> { "name", "address", "created_at" }
      [] endpoint = "adminUsers" -> { "name", "email", "address", "role", "created_at" }
      [] endpoint = "adminStores" -> { "name", "email", "address", "average_rating",
                                       "total_ratings", "created_at" }

AllowedSortOrders == { "asc", "desc" }

\* "if (!allowedSortFields.includes(sortBy)) sortBy = 'name'" and the same for sortOrder:
\* both are declared const, so the assignment throws a TypeError, which the handler's
\* catch answers with 500
FallbackAssignmentThrows(endpoint, q) ==
    \/ SortByOf(endpoint, q) \notin AllowedSortFields(endpoint)
    \/ ToLowerCase(SortOrderOf(endpoint, q)) \notin AllowedSortOrders

\* the rows selected by the WHERE clause
Matching(endpoint, q, us, ss) ==
    IF endpoint = "adminUsers"
    THEN { r \in us :
             /\ q.search = Absent \/ ILike(r.name, q.search) \/ ILike(r.email, q.search)
                                  \/ ILike(r.address, q.search)
             /\ q.role = Absent \/ r.role = q.role }
    ELSE IF endpoint = "adminStores"
    THEN { r \in ss :
             q.search = Absent \/ ILike(r.name, q.search) \/ ILike(r.email, q.search)
                               \/ ILike(r.address, q.search) }
    ELSE { r \in ss : q.search = Absent \/ ILike(r.name, q.search) \/ ILike(r.address, q.search) }

\* row a sorts strictly before row b under ORDER BY <field> ASC
Before(field, a, b) ==
    CASE field = "created_at" -> a.created_at < b.created_at
      [] field = "average_rating" ->
            LET x == CoalesceAvgRating(LeftJoinRatings(a))
                y == CoalesceAvgRating(LeftJoinRatings(b))
            IN  x.num * y.den < y.num * x.den
      [] field = "total_ratings" ->
            CountRatingId(LeftJoinRatings(a)) < CountRatingId(LeftJoinRatings(b))
      [] field = "name" -> Collate(a.name) < Collate(b.name)
      [] field = "email" -> Collate(a.email) < Collate(b.email)
      [] field = "address" -> Collate(a.address) < Collate(b.address)
      [] field = "role" -> Collate(a.role) < Collate(b.role)

\* does row a come no later than every other row under ORDER BY <field> <order>
First(rows, field, order, a) ==
    \A b \in rows : IF order = "DESC" THEN ~Before(field, a, b) ELSE ~Before(field, b, a)

\* the results ORDER BY <field> <order> may produce: the clause names no second key,
\* so rows with equal keys come in any order
RECURSIVE OrderBy(_, _, _)
OrderBy(rows, field, order) ==
    IF rows = {} THEN { <<>> }
    ELSE UNION { { <<x>> \o t : t \in OrderBy(rows \ {x}, field, order) } :
                 x \in { a \in rows : First(rows, field, order, a) } }

\* LIMIT l OFFSET o
LimitOffset(t, l, o) ==
    IF o >= Len(t) THEN <<>>
    ELSE SubSeq(t, o + 1, IF o + l < Len(t) THEN o + l ELSE Len(t))

\* Math.ceil(total / limit)
CeilDiv(total, limit) == (total + limit - 1) \div limit

Ids(t) == [i \in 1..Len(t) |-> t[i].id]

\* router.use(authenticateToken); router.use(requireRole(['system_admin']))
AdminAllowedRoles_WithOwner == { "system_admin", "store_owner" }
AdminAllowedRoles == { "system_admin" }

\* the answer of the admin router's gate: 0 when the request passes to its handler
AdminGate(cred) ==
    IF ~authenticateToken(cred) THEN 401
    ELSE IF ~requireRole(AdminAllowedRoles, cred) THEN 403
    ELSE 0

GateMessage(status) ==
    IF status = 401 THEN "Access token required" ELSE "Insufficient permissions"

\* the gate of a list endpoint: GET /api/stores is registered without middleware
ListGate(endpoint, cred) == IF endpoint = "stores" THEN 0 ELSE AdminGate(cred)

\* do two queries ask for pages of the same listing
SameListing(q1, q2) == [q1 EXCEPT !.page = Absent] = [q2 EXCEPT !.page = Absent]

\* does the request ask for the page after the ones collected, the tables being unchanged
NextPage(endpoint, q) ==
    /\ fetched.endpoint = endpoint
    /\ SameListing(fetched.q, q)
    /\ fetched.db = <<users, stores, ratings>>
    /\ PageOf(q) = Len(fetched.pages) + 1

\* the handler up to and including its count query
ListRequest(p, endpoint, cred, q) ==
    /\ Free(p)
    /\ LET r0 == [Idle EXCEPT !.op = "LIST", !.endpoint = endpoint, !.cred = cred, !.q = q,
                              !.pre = ratings, !.preUsers = users, !.preStores = stores]
           gate == ListGate(endpoint, cred)
       IN  req' = [req EXCEPT ![p] =
                IF gate # 0 THEN Respond(r0, gate, GateMessage(gate))
                ELSE IF FallbackAssignmentThrows(endpoint, q)
                THEN Respond([r0 EXCEPT !.handler = endpoint], 500, "Internal server error")
                ELSE [r0 EXCEPT !.handler = endpoint, !.pc = "select",
                                !.list.total = Cardinality(Matching(endpoint, q, users, stores))]]
    /\ fetched' = IF NextPage(endpoint, q) THEN fetched ELSE NoWalk
    /\ UNCHANGED <<dbVars, accepted, clock, registered, ownerFk, clientVars>>

\* a piece of the text of a statement: written in the source, or the value of a template
\* substitution; checked tells whether the code tested the value against an allow-list
\* before the substitution
Literal(text) == [text |-> text, fromRequest |-> FALSE, checked |-> FALSE]
Substituted(text, fromRequest, checked) ==
    [text |-> text, fromRequest |-> fromRequest, checked |-> checked]

\* ORDER BY ${sortBy} ${sortOrder.toUpperCase()} of the list queries, after
\* allowedSortFields.includes(sortBy) and allowedSortOrders.includes(sortOrder.toLowerCase())
ListSql(endpoint, q) ==
    << Literal("SELECT ... ORDER BY "),
       Substituted(SortByOf(endpoint, q), q.sortBy # Absent,
                   SortByOf(endpoint, q) \in AllowedSortFields(endpoint)),
       Literal(" "),
       Substituted(ToUpperCase(SortOrderOf(endpoint, q)), q.sortOrder # Absent,
                   ToLowerCase(SortOrderOf(endpoint, q)) \in AllowedSortOrders),
       Literal(" LIMIT $n OFFSET $m") >>

\* the key of the row array in the body of a list response
RowsKey(endpoint) == IF endpoint = "adminUsers" THEN "users" ELSE "stores"

\* the paginated query and res.json({ rows, pagination })
ListSelect(p) ==
    /\ req[p].op = "LIST" /\ req[p].pc = "select"
    /\ LET r == req[p]
           limit == LimitOf(r.q)
           offset == (PageOf(r.q) - 1) * limit
       IN  \E t \in OrderBy(Matching(r.endpoint, r.q, users, stores), SortByOf(r.endpoint, r.q),
                            ToUpperCase(SortOrderOf(r.endpoint, r.q))) :
              LET rows == Ids(LimitOffset(t, limit, offset))
              IN  /\ req' = [req EXCEPT ![p] =
                        Respond([r EXCEPT !.list = [rows |-> rows, currentPage |-> PageOf(r.q),
                                                    totalPages |-> CeilDiv(r.list.total, limit),
                                                    total |-> r.list.total, limit |-> limit],
                                          !.keys = { RowsKey(r.endpoint), "pagination" },
                                          !.sql = << ListSql(r.endpoint, r.q) >>],
                                200, "")]
                  /\ fetched' =
                        IF PageOf(r.q) = 1
                        THEN [endpoint |-> r.endpoint, q |-> r.q, pages |-> << rows >>,
                              db |-> <<users, stores, ratings>>]
                        ELSE IF NextPage(r.endpoint, r.q)
                        THEN [fetched EXCEPT !.pages = Append(@, rows)]
                        ELSE NoWalk
    /\ UNCHANGED <<dbVars, accepted, clock, registered, ownerFk, clientVars>>

----------------------------------------------------------------------------
(* POST /api/admin/users (routes/admin.js 125-160) *)

\* validateUserRegistration: name of 20 to 60 characters, the other fields present
validateUserRegistration(form) ==
    /\ form.name # Absent /\ Len(form.name) >= 20 /\ Len(form.name) <= 60
    /\ form.email # Absent
    /\ form.address # Absent
    /\ form.password # Absent

\* const { ..., role = 'normal_user' } = req.body
RoleOf(form) == IF form.role = Absent THEN "normal_user" ELSE form.role

\* users.name VARCHAR(60) CHECK (LENGTH(name) >= 20), users.role CHECK
UsersCheck(name, role) == Len(name) >= 20 /\ Len(name) <= 60 /\ role \in Roles

\* users.email UNIQUE
UsersEmailViolation_None(email) == FALSE
UsersEmailViolation(email) == \E u \in users : u.email = email

\* router.use(authenticateToken), router.use(requireRole([..])), then the route's validator
AdminUserChain_RoleFirst == <<"requireRole", "authenticateToken", "validateUserRegistration">>
AdminUserChain == <<"authenticateToken", "requireRole", "validateUserRegistration">>

\* the gate, validateUserRegistration and the handler up to its first query
AdminCreateUser(p, cred, form) ==
    /\ Free(p)
    /\ nextUserId <= MaxUserId
    /\ LET r0 == [Idle EXCEPT !.op = "POST_USER", !.cred = cred, !.form = form,
                              !.pre = ratings, !.preUsers = users, !.preStores = stores]
           run == RunChain(AdminUserChain, cred, AdminAllowedRoles, validateUserRegistration(form))
           r1 == [r0 EXCEPT !.stages = run.stages]
       IN  req' = [req EXCEPT ![p] =
                IF run.status # 0 THEN Respond(r1, run.status, RejectMessage(run.status))
                ELSE IF RoleOf(form) \notin { "normal_user", "store_owner", "system_admin" }
                THEN Respond([r1 EXCEPT !.handler = "postUsers"], 400, "Invalid role specified")
                ELSE [r1 EXCEPT !.handler = "postUsers", !.pc = "existing"]]
    /\ fetched' = NoWalk
    /\ UNCHANGED <<dbVars, accepted, clock, registered, ownerFk, clientVars>>

\* const existingUser = await pool.query('SELECT id FROM users WHERE email = $1')
AdminUserExisting(p) ==
    /\ req[p].op = "POST_USER" /\ req[p].pc = "existing"
    /\ req' = [req EXCEPT ![p] =
            LET r == [req[p] EXCEPT !.stages = Append(@, "database")]
            IN  IF \E u \in users : u.email = r.form.email
                THEN Respond(r, 400, "User with this email already exists")
                ELSE [r EXCEPT !.pc = "insert"]]
    /\ UNCHANGED <<dbVars, accepted, clock, fetched, registered, ownerFk, clientVars>>

\* INSERT INTO users ... RETURNING, then 201; a constraint violation is caught and answered 500
AdminUserInsert(p) ==
    /\ req[p].op = "POST_USER" /\ req[p].pc = "insert"
    /\ LET f == req[p].form
       IN  IF UsersEmailViolation(f.email) \/ ~UsersCheck(f.name, RoleOf(f))
           THEN /\ req' = [req EXCEPT ![p] = Respond(req[p], 500, "Internal server error")]
                /\ UNCHANGED <<users, clock>>
           ELSE /\ users' = users \cup { [id |-> nextUserId, name |-> f.name, email |-> f.email,
                                          password_hash |-> Hash(f.password),
                                          address |-> f.address, role |-> RoleOf(f),
                                          created_at |-> clock + 1] }
                /\ clock' = clock + 1
                /\ req' = [req EXCEPT ![p] = Respond(req[p], 201, "User created successfully")]
    /\ nextUserId' = nextUserId + 1
    /\ UNCHANGED <<stores, ratings, nextRatingId, nextStoreId, accepted, fetched, registered, ownerFk, clientVars>>

----------------------------------------------------------------------------
(* POST /api/admin/stores (routes/admin.js 350-387) *)

\* validateStoreCreation: the required fields are present, name of 20 to 60 characters
validateStoreCreation(form) ==
    /\ form.name # Absent /\ Len(form.name) >= 20 /\ Len(form.name) <= 60
    /\ form.email # Absent
    /\ form.address # Absent

\* stores.email UNIQUE
StoresEmailViolation(email) == \E s \in stores : s.email = email

\* stores.owner_id REFERENCES users(id); 0 stands for NULL
StoresOwnerOk(ownerId) == ownerId = 0 \/ \E u \in users : u.id = ownerId

AdminStoreChain == <<"authenticateToken", "requireRole", "validateStoreCreation">>

\* the gate, validateStoreCreation and the handler up to its first query
AdminCreateStore(p, cred, form) ==
    /\ Free(p)
    /\ nextStoreId <= MaxStoreId
    /\ LET r0 == [Idle EXCEPT !.op = "POST_STORE", !.cred = cred, !.form = form,
                              !.pre = ratings, !.preUsers = users, !.preStores = stores]
           run == RunChain(AdminStoreChain, cred, AdminAllowedRoles, validateStoreCreation(form))
           r1 == [r0 EXCEPT !.stages = run.stages]
       IN  req' = [req EXCEPT ![p] =
                IF run.status # 0 THEN Respond(r1, run.status, RejectMessage(run.status))
                ELSE [r1 EXCEPT !.handler = "postStores", !.pc = "existing"]]
    /\ fetched' = NoWalk
    /\ UNCHANGED <<dbVars, accepted, clock, registered, ownerFk, clientVars>>

\* const existingStore = await pool.query('SELECT id FROM stores WHERE email = $1')
AdminStoreExisting(p) ==
    /\ req[p].op = "POST_STORE" /\ req[p].pc = "existing"
    /\ req' = [req EXCEPT ![p] =
            LET r == [req[p] EXCEPT !.stages = Append(@, "database")]
            IN  IF \E s \in stores : s.email = r.form.email
                THEN Respond(r, 400, "Store with this email already exists")
                ELSE IF r.form.ownerId # 0 THEN [r EXCEPT !.pc = "owner"]
                ELSE [r EXCEPT !.pc = "insert"]]
    /\ UNCHANGED <<dbVars, accepted, clock, fetched, registered, ownerFk, clientVars>>

OwnerRefusal_AnyRole(ownerResult) ==
    IF ownerResult = {} THEN "Owner not found" ELSE ""
\* the message the handler refuses the owner row with, "" when it accepts it
OwnerRefusal(ownerResult) ==
    IF ownerResult = {} THEN "Owner not found"
    ELSE IF \E u \in ownerResult : u.role # "store_owner"
    THEN "Owner must have store_owner role"
    ELSE ""

\* if (ownerId) { const ownerResult = await pool.query('SELECT role FROM users WHERE id = $1') }
AdminStoreOwner(p) ==
    /\ req[p].op = "POST_STORE" /\ req[p].pc = "owner"
    /\ LET ownerResult == { u \in users : u.id = req[p].form.ownerId }
           refusal == OwnerRefusal(ownerResult)
       IN  req' = [req EXCEPT ![p] =
                IF refusal # "" THEN Respond(req[p], 400, refusal)
                ELSE [req[p] EXCEPT !.pc = "insert"]]
    /\ UNCHANGED <<dbVars, accepted, clock, fetched, registered, ownerFk, clientVars>>

\* INSERT INTO stores ... RETURNING, then 201; a constraint violation is caught and answered 500
AdminStoreInsert(p) ==
    /\ req[p].op = "POST_STORE" /\ req[p].pc = "insert"
    /\ LET f == req[p].form
       IN  IF StoresEmailViolation(f.email) \/ ~StoresOwnerOk(f.ownerId)
           THEN /\ req' = [req EXCEPT ![p] = Respond(req[p], 500, "Internal server error")]
                /\ UNCHANGED <<stores, clock>>
           ELSE /\ stores' = stores \cup { [id |-> nextStoreId, name |-> f.name,
                                            address |-> f.address, email |-> f.email,
                                            owner_id |-> f.ownerId, created_at |-> clock + 1] }
                /\ clock' = clock + 1
                /\ req' = [req EXCEPT ![p] =
                        Respond([req[p] EXCEPT !.arg = nextStoreId], 201,
                                "Store created successfully")]
    /\ nextStoreId' = nextStoreId + 1
    /\ UNCHANGED <<users, ratings, nextRatingId, nextUserId, accepted, fetched, registered, ownerFk, clientVars>>

----------------------------------------------------------------------------
(* POST /api/auth/register (routes/auth.js 15-61) *)

RegisterChain == <<"validateUserRegistration">>

\* the role column of the INSERT is the literal 'normal_user'; req.body.role is not read
RegisterRole_FromBody(form) == RoleOf(form)
RegisterRole(form) == "normal_user"

\* validateUserRegistration, then the handler up to its first query
Register(p, form) ==
    /\ Free(p)
    /\ nextUserId <= MaxUserId
    /\ LET r0 == [Idle EXCEPT !.op = "REGISTER", !.form = form, !.pre = ratings,
                              !.preUsers = users, !.preStores = stores]
           run == RunChain(RegisterChain, NoCred, {}, validateUserRegistration(form))
           r1 == [r0 EXCEPT !.stages = run.stages]
       IN  req' = [req EXCEPT ![p] =
                IF run.status # 0 THEN Respond(r1, run.status, RejectMessage(run.status))
                ELSE [r1 EXCEPT !.handler = "register", !.pc = "existing"]]
    /\ fetched' = NoWalk
    /\ UNCHANGED <<dbVars, accepted, clock, registered, ownerFk, clientVars>>

\* const existingUser = await pool.query('SELECT id FROM users WHERE email = $1')
RegisterExisting(p) ==
    /\ req[p].op = "REGISTER" /\ req[p].pc = "existing"
    /\ req' = [req EXCEPT ![p] =
            LET r == [req[p] EXCEPT !.stages = Append(@, "database")]
            IN  IF \E u \in users : u.email = r.form.email
                THEN Respond(r, 400, "User with this email already exists")
                ELSE [r EXCEPT !.pc = "insert"]]
    /\ UNCHANGED <<dbVars, accepted, clock, fetched, registered, ownerFk, clientVars>>

\* bcrypt.hash, INSERT INTO users ... RETURNING, jwt.sign, then 201; a constraint violation
\* is caught and answered 500
RegisterInsert(p) ==
    /\ req[p].op = "REGISTER" /\ req[p].pc = "insert"
    /\ LET f == req[p].form
           newUser == [id |-> nextUserId, name |-> f.name, email |-> f.email,
                    password_hash |-> Hash(f.password), address |-> f.address,
                    role |-> RegisterRole(f), created_at |-> clock + 1]
       IN  IF UsersEmailViolation(f.email) \/ ~UsersCheck(f.name, RegisterRole(f))
           THEN /\ req' = [req EXCEPT ![p] = Respond(req[p], 500, "Internal server error")]
                /\ UNCHANGED <<users, clock, registered, ownerFk, clientVars>>
           ELSE /\ users' = users \cup { newUser }
                /\ clock' = clock + 1
                /\ registered' = registered \cup { [id |-> newUser.id, email |-> f.email,
                                                    password |-> f.password, role |-> newUser.role] }
                /\ req' = [req EXCEPT ![p] =
                        Respond([req[p] EXCEPT !.token = Token(newUser)],
                                201, "User registered successfully")]
    /\ nextUserId' = nextUserId + 1
    /\ UNCHANGED <<stores, ratings, nextRatingId, nextStoreId, accepted, fetched, ownerFk, clientVars>>

----------------------------------------------------------------------------
(* POST /api/auth/login (routes/auth.js 64-105) *)

\* validateUserLogin: email and password are present
validateUserLogin(form) == form.email # Absent /\ form.password # Absent

LoginChain == <<"validateUserLogin">>

UnknownEmailMessage_Distinct == "No account with this email"
\* the message of the 401 given when no row has the email
UnknownEmailMessage == "Invalid email or password"

\* the answer of the handler: SELECT * FROM users WHERE email = $1, bcrypt.compare, jwt.sign
LoginAnswer(form) ==
    LET result == { u \in users : u.email = form.email }
    IN  IF result = {} THEN [status |-> 401, msg |-> UnknownEmailMessage, token |-> NoCred]
        ELSE LET userRow == CHOOSE u \in result : TRUE
             IN  IF ~Compare(form.password, userRow.password_hash)
                 THEN [status |-> 401, msg |-> "Invalid email or password", token |-> NoCred]
                 ELSE [status |-> 200, msg |-> "Login successful", token |-> Token(userRow)]

\* SELECT * FROM users WHERE email = $1, bcrypt.compare, jwt.sign
Login(p, form) ==
    /\ Free(p)
    /\ LET r0 == [Idle EXCEPT !.op = "LOGIN", !.form = form, !.pre = ratings,
                              !.preUsers = users, !.preStores = stores]
           run == RunChain(LoginChain, NoCred, {}, validateUserLogin(form))
           r1 == [r0 EXCEPT !.stages = run.stages \o <<"database">>, !.handler = "login"]
           answer == LoginAnswer(form)
       IN  req' = [req EXCEPT ![p] =
                IF run.status # 0
                THEN Respond([r0 EXCEPT !.stages = run.stages], run.status, RejectMessage(run.status))
                ELSE Respond([r1 EXCEPT !.token = answer.token], answer.status, answer.msg)]
    /\ UNCHANGED <<dbVars, accepted, clock, fetched, registered, ownerFk, clientVars>>

----------------------------------------------------------------------------
(* PUT /api/auth/password (routes/auth.js 108-141) *)

\* validatePasswordUpdate: current and new password are present
validatePasswordUpdate(form) == form.password # Absent /\ form.newPassword # Absent

PasswordChain == <<"authenticateToken", "validatePasswordUpdate">>

\* the middleware, SELECT password_hash FROM users WHERE id = $1, bcrypt.compare
PutPassword(p, cred, form) ==
    /\ Free(p)
    /\ LET r0 == [Idle EXCEPT !.op = "PUT_PASSWORD", !.cred = cred, !.form = form, !.pre = ratings,
                              !.preUsers = users, !.preStores = stores]
           run == RunChain(PasswordChain, cred, {}, validatePasswordUpdate(form))
           r1 == [r0 EXCEPT !.stages = run.stages \o <<"database">>, !.handler = "putPassword"]
           result == { u \in users : u.id = cred.id }
       IN  req' = [req EXCEPT ![p] =
                IF run.status # 0
                THEN Respond([r0 EXCEPT !.stages = run.stages], run.status, RejectMessage(run.status))
                ELSE IF result = {} THEN Respond(r1, 404, "User not found")
                ELSE IF \E u \in result : ~Compare(form.password, u.password_hash)
                THEN Respond(r1, 400, "Current password is incorrect")
                ELSE [r1 EXCEPT !.pc = "update"]]
    /\ UNCHANGED <<dbVars, accepted, clock, fetched, registered, ownerFk, clientVars>>

UpdatePasswordById_AllRows(id, hash) == { [u EXCEPT !.password_hash = hash] : u \in users }
\* UPDATE users SET password_hash = $1 ... WHERE id = $2
UpdatePasswordById(id, hash) ==
    { IF u.id = id THEN [u EXCEPT !.password_hash = hash] ELSE u : u \in users }

PutPasswordUpdate(p) ==
    /\ req[p].op = "PUT_PASSWORD" /\ req[p].pc = "update"
    /\ users' = UpdatePasswordById(req[p].cred.id, Hash(req[p].form.newPassword))
    /\ registered' = { a \in registered : a.id # req[p].cred.id }
    /\ req' = [req EXCEPT ![p] = Respond(req[p], 200, "Password updated successfully")]
    /\ UNCHANGED <<stores, ratings, nextRatingId, nextUserId, nextStoreId, accepted, clock, fetched, ownerFk, clientVars>>

----------------------------------------------------------------------------
(* PUT /api/auth/profile (routes/auth.js 144-183), PUT /api/users/profile (routes/users.js 33-96) *)

\* a JavaScript value used as a condition: undefined and the empty string are falsy
Truthy(x) == x # Absent /\ x # ""

\* UPDATE users SET name = .., address = .. WHERE id = ..: only the columns named are set
UpdateProfileById_AllRows(id, name, address) ==
    { [u EXCEPT !.name = IF Truthy(name) THEN name ELSE @,
                !.address = IF Truthy(address) THEN address ELSE @] : u \in users }
UpdateProfileById(id, name, address) ==
    { IF u.id = id
      THEN [u EXCEPT !.name = IF Truthy(name) THEN name ELSE @,
                     !.address = IF Truthy(address) THEN address ELSE @]
      ELSE u : u \in users }

AuthProfileChain == <<"authenticateToken">>

\* authenticateToken, the checks at the head of the handler, then the UPDATE
PutAuthProfile(p, cred, form) ==
    /\ Free(p)
    /\ LET r0 == [Idle EXCEPT !.op = "PUT_AUTH_PROFILE", !.cred = cred, !.form = form,
                              !.pre = ratings, !.preUsers = users, !.preStores = stores]
           run == RunChain(AuthProfileChain, cred, {}, TRUE)
           r1 == [r0 EXCEPT !.stages = run.stages \o <<"validation">>, !.handler = "putAuthProfile"]
           r2 == [r1 EXCEPT !.stages = @ \o <<"database">>]
           hit == { u \in users : u.id = cred.id }
       IN  IF run.status # 0
           THEN /\ req' = [req EXCEPT ![p] =
                       Respond([r0 EXCEPT !.stages = run.stages], run.status, RejectMessage(run.status))]
                /\ UNCHANGED users
           ELSE IF ~Truthy(form.name) \/ ~Truthy(form.address)
           THEN /\ req' = [req EXCEPT ![p] = Respond(r1, 400, "Name and address are required")]
                /\ UNCHANGED users
           ELSE IF Len(form.name) < 20 \/ Len(form.name) > 60
           THEN /\ req' = [req EXCEPT ![p] =
                       Respond(r1, 400, "Name must be between 20-60 characters")]
                /\ UNCHANGED users
           ELSE IF Len(form.address) > 400
           THEN /\ req' = [req EXCEPT ![p] =
                       Respond(r1, 400, "Address must not exceed 400 characters")]
                /\ UNCHANGED users
           ELSE /\ users' = UpdateProfileById(cred.id, form.name, form.address)
                /\ req' = [req EXCEPT ![p] =
                       IF hit = {} THEN Respond(r2, 404, "User not found")
                       ELSE Respond(r2, 200, "Profile updated successfully")]
    /\ UNCHANGED <<stores, ratings, nextRatingId, nextUserId, nextStoreId, accepted, clock, fetched,
                   registered, ownerFk, clientVars>>

UsersProfileChain == <<"authenticateToken">>

\* router.use(authenticateToken), the checks at the head of the handler, then the UPDATE
PutUsersProfile(p, cred, form) ==
    /\ Free(p)
    /\ LET r0 == [Idle EXCEPT !.op = "PUT_USERS_PROFILE", !.cred = cred, !.form = form,
                              !.pre = ratings, !.preUsers = users, !.preStores = stores]
           run == RunChain(UsersProfileChain, cred, {}, TRUE)
           r1 == [r0 EXCEPT !.stages = run.stages \o <<"validation">>, !.handler = "putUsersProfile"]
           r2 == [r1 EXCEPT !.stages = @ \o <<"database">>]
       IN  IF run.status # 0
           THEN /\ req' = [req EXCEPT ![p] =
                       Respond([r0 EXCEPT !.stages = run.stages], run.status, RejectMessage(run.status))]
                /\ UNCHANGED users
           ELSE IF Truthy(form.name) /\ (Len(form.name) < 20 \/ Len(form.name) > 60)
           THEN /\ req' = [req EXCEPT ![p] =
                       Respond(r1, 400, "Name must be between 20 and 60 characters")]
                /\ UNCHANGED users
           ELSE IF Truthy(form.address) /\ Len(form.address) > 400
           THEN /\ req' = [req EXCEPT ![p] =
                       Respond(r1, 400, "Address must not exceed 400 characters")]
                /\ UNCHANGED users
           ELSE IF ~Truthy(form.name) /\ ~Truthy(form.address)
           THEN /\ req' = [req EXCEPT ![p] = Respond(r1, 400, "No fields to update")]
                /\ UNCHANGED users
           ELSE /\ users' = UpdateProfileById(cred.id, form.name, form.address)
                /\ req' = [req EXCEPT ![p] = Respond(r2, 200, "Profile updated successfully")]
    /\ UNCHANGED <<stores, ratings, nextRatingId, nextUserId, nextStoreId, accepted, clock, fetched,
                   registered, ownerFk, clientVars>>

----------------------------------------------------------------------------
(* The list and administration service: specification *)

SeedUser(id) == CHOOSE u \in SeedUsers : u.id = id

\* an administrator, a normal user, a store owner, and no credential
AdminCreds == { Token(SeedUser(1)), Token(SeedUser(2)), Token(SeedUser(4)), NoCred }

Query(search, role, sortBy, sortOrder, limit) ==
    [search |-> search, role |-> role, sortBy |-> sortBy, sortOrder |-> sortOrder,
     page |-> Absent, limit |-> limit, period |-> Absent]

\* the listings requested of each endpoint
Listings(endpoint) ==
    CASE endpoint = "stores" ->
            { NoQuery,
              Query(Absent, Absent, "created_at", Absent, "1"),
              Query(Absent, Absent, "name", "desc", "2"),
              Query("market", Absent, "address", "ASC", "1"),
              Query(Absent, Absent, "average_rating", Absent, "2"),
              Query(Absent, Absent, Absent, "sideways", "2") }
      [] endpoint = "adminUsers" ->
            { NoQuery,
              Query(Absent, Absent, "created_at", "DESC", "2"),
              Query("example", "normal_user", "role", Absent, "1"),
              Query(Absent, "store_owner", "email", Absent, "2"),
              Query(Absent, Absent, "password_hash", Absent, "2") }
      [] endpoint = "adminStores" ->
            { NoQuery,
              Query(Absent, Absent, "average_rating", "desc", "1"),
              Query(Absent, Absent, "total_ratings", Absent, "2"),
              Query(Absent, Absent, "name", "upwards", "2") }

ListPages == { Absent, "2", "3" }

ListEndpoints == { "stores", "adminUsers", "adminStores" }

\* every listing at its pages from the administrator, the admin listings from everybody
ListRequests ==
    UNION { { [endpoint |-> e, cred |-> Token(SeedUser(1)), q |-> [k EXCEPT !.page = pg]] :
                k \in Listings(e), pg \in ListPages } : e \in ListEndpoints }
      \cup { [endpoint |-> e, cred |-> c, q |-> NoQuery] :
                e \in { "adminUsers", "adminStores" }, c \in AdminCreds }
      \cup { [endpoint |-> "stores", cred |-> NoCred, q |-> NoQuery] }

UserForms ==
    { [name |-> "Anna Brown - A Newly Created User", email |-> "anna@example.com",
       address |-> "12 New Road, Example City, EC 12345", role |-> Absent, ownerId |-> 0,
       password |-> "Anna@1234", newPassword |-> Absent],
      [name |-> "Omar Khan - A Second Store Owner", email |-> "omar@example.com",
       address |-> "12 New Road, Example City, EC 12345", role |-> "store_owner", ownerId |-> 0,
       password |-> "Anna@1234", newPassword |-> Absent],
      [name |-> "Anna Brown - A Newly Created User", email |-> "user@example.com",
       address |-> "12 New Road, Example City, EC 12345", role |-> "normal_user", ownerId |-> 0,
       password |-> "Anna@1234", newPassword |-> Absent],
      [name |-> "Anna Brown - A Newly Created User", email |-> "anna@example.com",
       address |-> "12 New Road, Example City, EC 12345", role |-> "superuser", ownerId |-> 0,
       password |-> "Anna@1234", newPassword |-> Absent],
      [name |-> "Anna Brown", email |-> "anna@example.com",
       address |-> "12 New Road, Example City, EC 12345", role |-> Absent, ownerId |-> 0,
       password |-> "Anna@1234", newPassword |-> Absent] }

StoreForm(name, email, ownerId) ==
    [name |-> name, email |-> email, address |-> "300 Market Way, Downtown, DT 44444",
     role |-> Absent, ownerId |-> ownerId, password |-> Absent, newPassword |-> Absent]

StoreForms ==
    { StoreForm("City Market Downtown Branch", "second@city.com", 4),
      StoreForm("City Market Downtown Branch", "third@city.com", 0),
      StoreForm("City Market Downtown Branch", "market@city.com", 0),
      StoreForm("City Market Downtown Branch", "second@city.com", 2),
      StoreForm("City Market Downtown Branch", "second@city.com", MaxUserId + 1),
      StoreForm(Absent, "second@city.com", 0) }

\* the creation requests: every form from the administrator, a valid form from the others
CreateUserRequests ==
    { [cred |-> Token(SeedUser(1)), form |-> f] : f \in UserForms }
      \cup { [cred |-> c, form |-> CHOOSE f \in UserForms : f.email = "omar@example.com"] :
                c \in AdminCreds }

CreateStoreRequests ==
    { [cred |-> Token(SeedUser(1)), form |-> f] : f \in StoreForms }
      \cup { [cred |-> c, form |-> StoreForm("City Market Downtown Branch", "third@city.com", 0)] :
                c \in AdminCreds }

\* the sample ratings of insertSampleData
SeedRatings ==
    { [id |-> 1, user_id |-> 2, store_id |-> 1, rating |-> 5,
       comment |-> "Great products and service!"],
      [id |-> 2, user_id |-> 3, store_id |-> 1, rating |-> 4,
       comment |-> "Good selection of items"],
      [id |-> 3, user_id |-> 2, store_id |-> 2, rating |-> 5,
       comment |-> "Excellent quality and service"] }

\* the database after initializeDatabase and insertSampleData
InitAdmin ==
    /\ users = SeedUsers
    /\ stores = SeedStores
    /\ ratings = SeedRatings
    /\ nextRatingId = 4
    /\ nextUserId = 6
    /\ nextStoreId = 3
    /\ req = [p \in Slots |-> Idle]
    /\ accepted = [k \in UserIds \X StoreIds |-> 0]
    /\ clock = 5
    /\ fetched = NoWalk
    /\ registered = {}
    /\ ownerFk = "NO ACTION"
    /\ InitClientAtRest

AdminStep(p) ==
    \/ \E l \in ListRequests : ListRequest(p, l.endpoint, l.cred, l.q)
    \/ ListSelect(p)
    \/ \E c \in CreateUserRequests : AdminCreateUser(p, c.cred, c.form)
    \/ AdminUserExisting(p)
    \/ AdminUserInsert(p)
    \/ \E c \in CreateStoreRequests : AdminCreateStore(p, c.cred, c.form)
    \/ AdminStoreExisting(p)
    \/ AdminStoreOwner(p)
    \/ AdminStoreInsert(p)

\* one request at a time
NextAdmin == \E p \in SeqSlots : AdminStep(p)
SpecAdmin == InitAdmin /\ [][NextAdmin]_vars

----------------------------------------------------------------------------
(* Properties of the list and administration service *)

\* the concatenation of a sequence of pages
RECURSIVE Concat(_)
Concat(pages) == IF pages = <<>> THEN <<>> ELSE Head(pages) \o Concat(Tail(pages))

IsAdminRequest(r) ==
    \/ r.op \in { "POST_USER", "POST_STORE" }
    \/ r.op = "LIST" /\ r.endpoint \in { "adminUsers", "adminStores" }

\* C8: pagination law of the list endpoints. For a listing with limit L >= 1 collected page
\* by page from unchanged tables with N matching rows, every response reports
\* totalPages = ceil(N/L), the pages are the consecutive L-row slices of one sorted result,
\* and the pages 1..totalPages together hold every matching row exactly once.
C8_PaginationLaw ==
    fetched # NoWalk =>
        LET rows == Matching(fetched.endpoint, fetched.q, fetched.db[1], fetched.db[2])
            L == LimitOf(fetched.q)
            all == Concat(fetched.pages)
        IN  /\ \A p \in SeqSlots :
                  Done(p) /\ req[p].op = "LIST" /\ req[p].status = 200
                      => req[p].list.totalPages = CeilDiv(req[p].list.total, req[p].list.limit)
            /\ \A i, j \in 1..Len(all) : i # j => all[i] # all[j]
            /\ Len(fetched.pages) = CeilDiv(Cardinality(rows), L)
                  => { all[i] : i \in 1..Len(all) } = { r.id : r \in rows }

\* C9: a list request whose sortBy is outside the endpoint's allow-list, or whose sortOrder
\* is neither asc nor desc, and which has passed the endpoint's gate, is answered 200 with
\* the rows in the order of the endpoint's default field and order.
C9_SortFallback ==
    \A p \in SeqSlots :
        LET r == req[p]
        IN  /\ Done(p) /\ r.op = "LIST" /\ ListGate(r.endpoint, r.cred) = 0
            /\ \/ SortByOf(r.endpoint, r.q) \notin AllowedSortFields(r.endpoint)
               \/ ToLowerCase(SortOrderOf(r.endpoint, r.q)) \notin { "asc", "desc" }
            => /\ r.status = 200
               /\ \E t \in OrderBy(Matching(r.endpoint, r.q, users, stores),
                                   DefaultSortBy(r.endpoint),
                                   ToUpperCase(DefaultSortOrder(r.endpoint))) :
                      r.list.rows = Ids(LimitOffset(t, LimitOf(r.q), (PageOf(r.q) - 1) * LimitOf(r.q)))

\* C10: a request to a route under /api/admin without a valid credential is answered 401,
\* one with a valid credential whose role is not system_admin is answered 403, and in both
\* cases no admin handler has run and the users and stores tables are as they were when
\* the request arrived.
C10_AdminGate ==
    \A p \in SeqSlots :
        LET r == req[p]
        IN  Done(p) /\ IsAdminRequest(r) /\ (~r.cred.valid \/ r.cred.role # "system_admin")
            => /\ r.status = IF r.cred.valid THEN 403 ELSE 401
               /\ r.handler = "none"
               /\ users = r.preUsers /\ stores = r.preStores

\* after the administrator has created a user, a store owner's request to create a store,
\* with a form the administrator's request succeeds with, is answered 403
C10_Witness ==
    \E p \in SeqSlots :
        /\ Done(p) /\ req[p].op = "POST_STORE"
        /\ req[p].cred = Token(SeedUser(4))
        /\ validateStoreCreation(req[p].form)
        /\ req[p].status = 403
        /\ Cardinality(users) > Cardinality(SeedUsers)

----------------------------------------------------------------------------
(* The account service: specification *)

AccountForm(name, email, password, role) ==
    [NoForm EXCEPT !.name = name, !.email = email, !.password = password, !.role = role,
                   !.address = "12 New Road, Example City, EC 12345"]

\* req.body of POST /auth/register: a body may carry a role field
RegisterForms ==
    { AccountForm("Anna Brown - A Newly Created User", "anna@example.com", "Anna@1234", "system_admin"),
      AccountForm("Omar Khan - A Second Store Owner", "omar@example.com", "Omar@1234", Absent),
      AccountForm("Anna Brown - A Newly Created User", "user@example.com", "Anna@1234", Absent),
      AccountForm("Anna Brown", "anna@example.com", "Anna@1234", Absent) }

\* req.body of POST /auth/login
LoginForms ==
    { AccountForm(Absent, e, pw, Absent) :
          e \in { "anna@example.com", "user@example.com" },
          pw \in { "Anna@1234", "User@123", "New@12345" } }
      \cup { AccountForm(Absent, "nobody@example.com", "Anna@1234", Absent),
             AccountForm(Absent, Absent, "Anna@1234", Absent) }

\* req.body of PUT /auth/password
PasswordForm(current, new) == [NoForm EXCEPT !.password = current, !.newPassword = new]

PasswordForms ==
    { PasswordForm("Anna@1234", "New@12345"), PasswordForm("User@123", "New@12345"),
      PasswordForm("Wrong@123", "New@12345"), PasswordForm("User@123", Absent),
      PasswordForm("User@123", "User@123") }

\* req.body of the profile updates: a body may carry role and email fields
ProfileForm(name, address) ==
    [NoForm EXCEPT !.name = name, !.address = address, !.role = "system_admin",
                   !.email = "admin@system.com"]

ProfileForms ==
    { ProfileForm("Johnathan Doe - A Renamed User", "9 Elm Street, Example City, EC 12345"),
      ProfileForm("Johnathan Doe - A Renamed User", Absent),
      ProfileForm("John", "9 Elm Street, Example City, EC 12345"),
      ProfileForm("", "9 Elm Street, Example City, EC 12345"),
      ProfileForm(Absent, Absent) }

\* the callers of the self-service routes: a seeded user, the newest account, nobody
SelfCreds ==
    { Token(SeedUser(2)), NoCred } \cup { Token(u) : u \in { x \in users : x.id = MaxUserId } }

SelfRatings ==
    { [seg |-> "1", cred |-> c, body |-> b] :
          c \in { Token(SeedUser(2)), NoCred },
          b \in { [rating |-> IntVal(5), comment |-> Null], [rating |-> IntVal(6), comment |-> Null] } }

AccountStep(p) ==
    \/ \E f \in RegisterForms : Register(p, f)
    \/ RegisterExisting(p)
    \/ RegisterInsert(p)
    \/ \E f \in LoginForms : Login(p, f)
    \/ \E c \in SelfCreds, f \in PasswordForms : PutPassword(p, c, f)
    \/ PutPasswordUpdate(p)
    \/ \E c \in { Token(SeedUser(2)), NoCred }, f \in ProfileForms : PutAuthProfile(p, c, f)
    \/ \E c \in { Token(SeedUser(2)), NoCred }, f \in ProfileForms : PutUsersProfile(p, c, f)
    \/ \E c \in CreateUserRequests : AdminCreateUser(p, c.cred, c.form)
    \/ AdminUserExisting(p)
    \/ AdminUserInsert(p)
    \/ \E w \in SelfRatings : PostRating(p, w.seg, w.cred, w.body.rating, w.body.comment)
    \/ PostExisting(p)
    \/ PostWrite(p)
    \/ PostStats(p)

\* one request at a time
NextSelf == \E p \in SeqSlots : AccountStep(p)
SpecSelf == Init /\ [][NextSelf]_vars

----------------------------------------------------------------------------
(* Properties of the account service *)

Rank(stage) ==
    CASE stage = "credential" -> 1 [] stage = "role" -> 2
      [] stage = "validation" -> 3 [] stage = "database" -> 4

\* the routes that write and stand behind authenticateToken
ProtectedWrites == { "POST", "PUT", "POST_USER", "POST_STORE", "PUT_PASSWORD",
                     "PUT_AUTH_PROFILE", "PUT_USERS_PROFILE" }

\* the 400 answers of the validators and of the checks of the payload's fields
ValidationMessages ==
    { "Validation failed", "Invalid role specified", "Name and address are required",
      "Name must be between 20-60 characters", "Name must be between 20 and 60 characters",
      "Address must not exceed 400 characters", "No fields to update" }

Rejected(r) ==
    \/ r.status \in { 401, 403 }
    \/ r.status = 400 /\ r.msg \in ValidationMessages

\* C11: in every protected write request the stages are decided in the order credential,
\* role, payload validation, database; and a request answered 401, 403 or with a 400 of
\* payload validation has executed no database statement and left the tables as they were.
C11_StageOrder ==
    \A p \in SeqSlots :
        LET r == req[p]
        IN  r.op \in ProtectedWrites =>
            /\ \A i, j \in 1..Len(r.stages) : i < j => Rank(r.stages[i]) <= Rank(r.stages[j])
            /\ Done(p) /\ Rejected(r) =>
                  /\ \A i \in 1..Len(r.stages) : r.stages[i] # "database"
                  /\ ratings = r.pre
                  /\ r.op \in { "POST", "PUT" } \/ (users = r.preUsers /\ stores = r.preStores)
            /\ Done(p) /\ r.status = 403 => r.stages = <<"credential", "role">>
            /\ Done(p) /\ r.status = 401 => r.stages = <<"credential">>

\* the administrator's creation request with a short name passed the credential and the
\* role check and was rejected by the validator, after another request has written
C11_Witness ==
    \E p \in SeqSlots :
        /\ Done(p) /\ req[p].op = "POST_USER" /\ req[p].status = 400
        /\ req[p].stages = <<"credential", "role", "validation">>
        /\ users # SeedUsers

----------------------------------------------------------------------------
(* Concurrent creation of accounts and stores: specification *)

\* two requests for the same new email, and one for an email already in the table
RaceRegisterForms ==
    { AccountForm("Anna Brown - A Newly Created User", "anna@example.com", "Anna@1234", Absent),
      AccountForm("Anna Brown - A Newly Created User", "user@example.com", "Anna@1234", Absent) }

RaceUserRequests ==
    { [cred |-> Token(SeedUser(1)),
       form |-> AccountForm("Anna Brown - A Newly Created User", "anna@example.com", "Anna@1234",
                            "store_owner")] }

RaceStoreRequests ==
    { [cred |-> Token(SeedUser(1)), form |-> f] :
          f \in { StoreForm("City Market Downtown Branch", "second@city.com", 4),
                  StoreForm("City Market Downtown Branch", "third@city.com", 2),
                  StoreForm("City Market Downtown Branch", "third@city.com", MaxUserId + 1),
                  StoreForm("City Market Downtown Branch", "market@city.com", 0) } }

CreationStep(p) ==
    \/ \E f \in RaceRegisterForms : Register(p, f)
    \/ RegisterExisting(p)
    \/ RegisterInsert(p)
    \/ \E c \in RaceUserRequests : AdminCreateUser(p, c.cred, c.form)
    \/ AdminUserExisting(p)
    \/ AdminUserInsert(p)
    \/ \E c \in RaceStoreRequests : AdminCreateStore(p, c.cred, c.form)
    \/ AdminStoreExisting(p)
    \/ AdminStoreOwner(p)
    \/ AdminStoreInsert(p)

\* requests of both slots interleave at every query
NextCreation == \E p \in Slots : CreationStep(p)
SpecCreation == Init /\ [][NextCreation]_vars

----------------------------------------------------------------------------
(* Properties of concurrent creation *)

CreationOps == { "REGISTER", "POST_USER", "POST_STORE" }

AlreadyExists == { "User with this email already exists", "Store with this email already exists" }

\* the emails of the table a creation request inserts into
EmailsFor(r) ==
    IF r.op = "POST_STORE" THEN { x.email : x \in stores } ELSE { x.email : x \in users }

\* C12: a registration or admin creation that has reached its handler's queries and whose
\* email is held by a row of its table that the request did not create itself is answered
\* 400 with the 'already exists' message, never 500.
C12_DuplicateEmailIs400 ==
    \A p \in Slots :
        LET r == req[p]
        IN  /\ Done(p) /\ r.op \in CreationOps
            /\ \E i \in 1..Len(r.stages) : r.stages[i] = "database"
            /\ r.status # 201
            /\ r.form.email \in EmailsFor(r)
            => r.status = 400 /\ r.msg \in AlreadyExists

\* C13: no two user rows share an email and no two store rows share an email.
C13_EmailsUnique ==
    /\ \A a, b \in users : a.email = b.email => a = b
    /\ \A a, b \in stores : a.email = b.email => a = b

\* two requests for the same new email have both passed the existence check, one has
\* inserted its row and the other has been refused by the constraint
C13_Witness ==
    \E p, q \in Slots :
        /\ p # q /\ Done(p) /\ Done(q)
        /\ req[p].op \in { "REGISTER", "POST_USER" } /\ req[q].op \in { "REGISTER", "POST_USER" }
        /\ req[p].form.email = req[q].form.email
        /\ req[p].status = 201 /\ req[q].status = 500
        /\ Cardinality({ u \in users : u.email = req[p].form.email }) = 1

----------------------------------------------------------------------------
(* Properties of registration, login and the self-service routes *)

\* C14: a login with the email and password of an accepted registration, the password not
\* having been changed since, is answered 200 with a token that carries the id and the role
\* of the account the registration created.
C14_LoginAfterRegister ==
    \A p \in SeqSlots :
        LET r == req[p]
        IN  Done(p) /\ r.op = "LOGIN" =>
            \A a \in registered :
                a.email = r.form.email /\ a.password = r.form.password
                => /\ r.status = 200
                   /\ r.token.valid /\ r.token.id = a.id /\ r.token.role = a.role
                   /\ \E u \in users : u.id = a.id /\ u.role = a.role

\* a login of a registered account has been answered
C14_Witness ==
    \E p \in SeqSlots :
        /\ Done(p) /\ req[p].op = "LOGIN" /\ req[p].status = 200
        /\ \E a \in registered : a.email = req[p].form.email /\ a.id = req[p].token.id

NewUsers == { u \in users' : \A x \in users : x.id # u.id }

\* C15: every user row created by a step of POST /auth/register has role normal_user, and
\* every user row created with another role is created by a step of POST /admin/users.
C15_RegisterRole ==
    [][\A u \in NewUsers :
          /\ (\E p \in SeqSlots : req[p].op = "REGISTER") => u.role = "normal_user"
          /\ u.role # "normal_user" => \E p \in SeqSlots : req[p].op = "POST_USER"]_vars

\* a registration whose body carries role system_admin has created a normal_user
C15_Witness ==
    \E p \in SeqSlots :
        /\ Done(p) /\ req[p].op = "REGISTER" /\ req[p].status = 201
        /\ req[p].form.role = "system_admin"
        /\ \E u \in users : u.id = req[p].token.id /\ u.role = "normal_user"

SelfServiceOps == { "PUT_AUTH_PROFILE", "PUT_USERS_PROFILE", "PUT_PASSWORD" }

\* C16: when a self-service request is answered, every user has the role and the email it
\* had when the request arrived, no row has been added or removed, and every row but the
\* caller's is unchanged.
C16_SelfServiceFrame ==
    \A p \in SeqSlots :
        LET r == req[p]
        IN  Done(p) /\ r.op \in SelfServiceOps =>
            /\ { u.id : u \in users } = { u.id : u \in r.preUsers }
            /\ \A u \in r.preUsers : \A v \in users :
                  v.id = u.id => /\ v.role = u.role /\ v.email = u.email
                                 /\ u.id # r.cred.id => v = u
            /\ stores = r.preStores

\* a profile update whose body carries role and email fields has changed the caller's row
C16_Witness ==
    \E p \in SeqSlots :
        /\ Done(p) /\ req[p].op = "PUT_USERS_PROFILE" /\ req[p].status = 200
        /\ req[p].form.role = "system_admin" /\ req[p].form.email # Absent
        /\ users # req[p].preUsers

----------------------------------------------------------------------------
(* Read endpoints: GET /api/stores/:id/ratings (routes/stores.js 112-133),  *)
(* GET /api/admin/analytics (routes/admin.js 163-236),                      *)
(* GET /api/stores/owner/analytics (routes/stores.js 309-413)               *)

\* routes/stores.js, in registration order
StoresRoutes ==
    << [method |-> "GET", pattern |-> <<>>, handler |-> "stores"],
       [method |-> "GET", pattern |-> <<":">>, handler |-> "storeDetails"],
       [method |-> "GET", pattern |-> <<":", "ratings">>, handler |-> "storeRatings"],
       [method |-> "GET", pattern |-> <<":", "authenticated">>, handler |-> "storeAuthenticated"],
       [method |-> "GET", pattern |-> <<"owner", "dashboard">>, handler |-> "ownerDashboard"],
       [method |-> "GET", pattern |-> <<"owner", "analytics">>, handler |-> "ownerAnalytics"],
       [method |-> "GET", pattern |-> <<":", "ratings">>, handler |-> "ownerStoreRatings"] >>

\* const { period = '30' } = req.query
PeriodOf(period) == IF period = Absent THEN "30" ELSE period

\* ... >= NOW() - INTERVAL '${period} days': period goes into the text as it arrived
PeriodSql(period) ==
    << Literal("SELECT ... WHERE created_at >= NOW() - INTERVAL '"),
       Substituted(PeriodOf(period), period # Absent, FALSE),
       Literal(" days' ...") >>

\* does the database accept the interval literal the statement then contains
IntervalOk(period) == PeriodOf(period) \in { "7", "30", "0 days' OR '1'='1" }

\* GET /api/stores/:id/ratings: one query, answered { ratings: rows }; the catch block
\* answers { ratings: [] } with the default status.  The rows are kept as a set: the model
\* does not carry the created_at of a rating, and LIMIT 50 is above its bounds.  The route
\* has no middleware: a credential sent with the request is not looked at.
GetStoreRatings(p, seg, cred, fail) ==
    /\ Free(p)
    /\ LET r0 == [Idle EXCEPT !.op = "GET_STORE_RATINGS", !.pre = ratings, !.arg = ParamId(seg),
                              !.cred = cred,
                              !.preUsers = users, !.preStores = stores,
                              !.handler = Dispatch(StoresRoutes, "GET", <<seg, "ratings">>),
                              !.sql = << << Literal("SELECT ... WHERE r.store_id = $1 ...") >> >>,
                              !.keys = { "ratings" }]
           rows == { x \in ratings : x.store_id = r0.arg /\ \E u \in users : u.id = x.user_id }
       IN  req' = [req EXCEPT ![p] =
                IF fail THEN Respond([r0 EXCEPT !.dbError = TRUE], 200, "")
                ELSE Respond([r0 EXCEPT !.existing = rows], 200, "")]
    /\ fetched' = NoWalk
    /\ UNCHANGED <<dbVars, accepted, clock, registered, ownerFk, clientVars>>

\* GET /api/admin/analytics: the router's gate and the destructuring of req.query
AdminAnalytics(p, cred, period) ==
    /\ Free(p)
    /\ LET r0 == [Idle EXCEPT !.op = "ADMIN_ANALYTICS", !.cred = cred, !.pre = ratings,
                              !.preUsers = users, !.preStores = stores,
                              !.q = [NoQuery EXCEPT !.period = period]]
           gate == AdminGate(cred)
       IN  req' = [req EXCEPT ![p] =
                IF gate # 0 THEN Respond(r0, gate, GateMessage(gate))
                ELSE [r0 EXCEPT !.handler = "adminAnalytics", !.pc = "trends"]]
    /\ fetched' = NoWalk
    /\ UNCHANGED <<dbVars, accepted, clock, registered, ownerFk, clientVars>>

\* the rating-trend query with the period in its text, the remaining aggregate queries
\* and res.json; any rejected query is answered by the catch block
AdminAnalyticsTrends(p, fail) ==
    /\ req[p].op = "ADMIN_ANALYTICS" /\ req[p].pc = "trends"
    /\ LET r == [req[p] EXCEPT !.sql = << PeriodSql(req[p].q.period) >>]
       IN  req' = [req EXCEPT ![p] =
                IF fail \/ ~IntervalOk(r.q.period)
                THEN Respond([r EXCEPT !.dbError = TRUE], 500, "Internal server error")
                ELSE Respond([r EXCEPT !.keys = { "ratingTrends", "userEngagement",
                                                  "storePerformance", "geoDistribution" }],
                             200, "")]
    /\ UNCHANGED <<dbVars, accepted, clock, fetched, registered, ownerFk, clientVars>>

OwnerAnalyticsChain == << "authenticateToken", "requireRole" >>

\* GET /api/stores/owner/analytics: the middleware and the store query
OwnerAnalytics(p, cred, period, fail) ==
    /\ Free(p)
    /\ LET r0 == [Idle EXCEPT !.op = "OWNER_ANALYTICS", !.cred = cred, !.pre = ratings,
                              !.preUsers = users, !.preStores = stores,
                              !.q = [NoQuery EXCEPT !.period = period],
                              !.handler = Dispatch(StoresRoutes, "GET", <<"owner", "analytics">>)]
           run == RunChain(OwnerAnalyticsChain, cred, { "store_owner" }, TRUE)
           r1 == [r0 EXCEPT !.stages = run.stages \o <<"database">>,
                            !.sql = << << Literal("SELECT id, name FROM stores WHERE owner_id = $1") >> >>]
           found == { s \in stores : s.owner_id = cred.id }
       IN  req' = [req EXCEPT ![p] =
                IF run.status # 0
                THEN Respond([r0 EXCEPT !.stages = run.stages], run.status, RejectMessage(run.status))
                ELSE IF fail THEN Respond([r1 EXCEPT !.dbError = TRUE], 500, "Internal server error")
                ELSE IF found = {} THEN Respond(r1, 404, "Store not found")
                ELSE [r1 EXCEPT !.existing = found, !.pc = "trends"]]
    /\ fetched' = NoWalk
    /\ UNCHANGED <<dbVars, accepted, clock, registered, ownerFk, clientVars>>

\* the rating analytics query with the period in its text, the remaining queries, res.json
OwnerAnalyticsRatings(p, fail) ==
    /\ req[p].op = "OWNER_ANALYTICS" /\ req[p].pc = "trends"
    /\ LET r == [req[p] EXCEPT !.sql = Append(@, PeriodSql(req[p].q.period))]
       IN  req' = [req EXCEPT ![p] =
                IF fail \/ ~IntervalOk(r.q.period)
                THEN Respond([r EXCEPT !.dbError = TRUE], 500, "Internal server error")
                ELSE Respond([r EXCEPT !.keys = { "store", "period", "ratingAnalytics",
                                                  "customerBehavior", "sentimentAnalysis",
                                                  "competitiveInsights" }],
                             200, "")]
    /\ UNCHANGED <<dbVars, accepted, clock, fetched, registered, ownerFk, clientVars>>

\* the text of a path parameter is sent as the value of an integer column
IntegerText(seg) == seg \in IdSegs

\* GET /api/ratings/user/<seg>: router.use(authenticateToken), then the handler that
\* first-match dispatch selects.  '/user/:storeId' (ratings.js 373-394) sends the segment
\* as store_id, and the database rejects text that is no integer; '/user/stats'
\* (ratings.js 397-450) reports the caller's statistics.
GetRatingsUser(p, seg, cred) ==
    /\ Free(p)
    /\ LET r0 == [Idle EXCEPT !.op = "GET_RATINGS_USER", !.pre = ratings, !.cred = cred,
                              !.q = [NoQuery EXCEPT !.search = seg],
                              !.preUsers = users, !.preStores = stores]
           r1 == [r0 EXCEPT !.handler = Dispatch(RatingsRoutes, "GET", <<"user", seg>>)]
       IN  req' = [req EXCEPT ![p] =
                IF ~authenticateToken(cred) THEN Respond(r0, 401, "Access token required")
                ELSE IF r1.handler = "userStoreRating"
                THEN IF ~IntegerText(seg)
                     THEN Respond([r1 EXCEPT !.dbError = TRUE], 500, "Internal server error")
                     ELSE Respond([r1 EXCEPT !.arg = ParamId(seg), !.keys = { "rating" },
                                             !.existing = RatingOfUserForStore(cred.id, ParamId(seg))],
                                  200, "")
                ELSE Respond([r1 EXCEPT !.keys = { "totalRatings", "averageRating",
                                                   "ratingDistribution", "recentRatings" },
                                        !.existing = { x \in ratings : x.user_id = cred.id }],
                             200, "")]
    /\ fetched' = NoWalk
    /\ UNCHANGED <<dbVars, accepted, clock, registered, ownerFk, clientVars>>

----------------------------------------------------------------------------
(* The read endpoints: specification *)

ReadCreds == { Token(SeedUser(1)), Token(SeedUser(2)), Token(SeedUser(4)), NoCred }

\* the period values of the requests: absent, a number of days, text that is no number,
\* and text that closes the quoted literal
Periods == { Absent, "7", "abc", "0 days' OR '1'='1" }

\* the last segment of GET /api/ratings/user/<seg>
UserSegs == { "1", "2", "stats" }

ReadStep(p) ==
    \/ \E l \in ListRequests : ListRequest(p, l.endpoint, l.cred, l.q)
    \/ ListSelect(p)
    \/ \E seg \in IdSegs, c \in ReadCreds, fail \in BOOLEAN : GetStoreRatings(p, seg, c, fail)
    \/ \E seg \in UserSegs, c \in ReadCreds : GetRatingsUser(p, seg, c)
    \/ \E c \in ReadCreds, d \in Periods : AdminAnalytics(p, c, d)
    \/ \E fail \in BOOLEAN : AdminAnalyticsTrends(p, fail)
    \/ \E c \in ReadCreds, d \in Periods, fail \in BOOLEAN : OwnerAnalytics(p, c, d, fail)
    \/ \E fail \in BOOLEAN : OwnerAnalyticsRatings(p, fail)

\* one request at a time
NextRead == \E p \in SeqSlots : ReadStep(p)
SpecRead == InitAdmin /\ [][NextRead]_vars

\* C17 as stated: in every route handler, a database error raised by any of the handler's
\* queries is answered with status 500 and the generic internal-error body.
C17_DbErrorIs500 ==
    \A p \in SeqSlots :
        (Done(p) /\ req[p].dbError) =>
            (req[p].status = 500 /\ req[p].msg = "Internal server error")

\* C18 as stated: every endpoint that returns a list of rows wraps it with pagination
\* metadata (current page, total pages, total count, limit).
C18_ListsPaginated ==
    \A p \in SeqSlots :
        (Done(p) /\ req[p].status = 200 /\ req[p].op \in { "LIST", "GET_STORE_RATINGS" }) =>
            "pagination" \in req[p].keys

\* C19 as stated: no value taken from a request becomes part of the text of a SQL
\* statement unless it has first been checked for membership in a fixed allow-list.
C19_NoUncheckedSqlText ==
    \A p \in SeqSlots :
        \A i \in 1..Len(req[p].sql) :
            \A j \in 1..Len(req[p].sql[i]) :
                req[p].sql[i][j].fromRequest => req[p].sql[i][j].checked


\* is there a user with this id whose role is store_owner
IsStoreOwner(id) == \E u \in users : u.id = id /\ u.role = "store_owner"

----------------------------------------------------------------------------
(* Store owner endpoints: GET /api/stores/owner/dashboard                    *)
(* (routes/stores.js 174-306), GET /api/users/store (routes/users.js 99-127) *)

\* the value of an aggregate that is NULL over no rows
SqlNull == [null |-> TRUE, v |-> 0]
SqlInt(v) == [null |-> FALSE, v |-> v]

\* MIN(rating), MAX(rating)
SqlMin(rows) ==
    IF rows = {} THEN SqlNull
    ELSE SqlInt(CHOOSE m \in { r.rating : r \in rows } : \A r \in rows : m <= r.rating)
SqlMax(rows) ==
    IF rows = {} THEN SqlNull
    ELSE SqlInt(CHOOSE m \in { r.rating : r \in rows } : \A r \in rows : m >= r.rating)

\* parseInt(x) || 0: NaN for NULL, and NaN and 0 are falsy
ParseIntOrZero(x) == IF x.null \/ x.v = 0 THEN 0 ELSE x.v

PositiveRatings_Strict(rows) == Cardinality({ r \in rows : r.rating > 4 })
\* COUNT(CASE WHEN rating >= 4 THEN 1 END)
PositiveRatings(rows) == Cardinality({ r \in rows : r.rating >= 4 })

\* COUNT(CASE WHEN rating <= 2 THEN 1 END)
NegativeRatings(rows) == Cardinality({ r \in rows : r.rating <= 2 })

\* the object filled with 0 for 1..5 and then with the count of every GROUP BY rating row
RatingDistribution(rows) ==
    [i \in (1..5) \cup { r.rating : r \in rows } |-> Cardinality({ r \in rows : r.rating = i })]

\* stats.total_ratings > 0 ? Math.round((positive / total) * 100) : 0
CustomerSatisfaction(rows) ==
    LET total == Cardinality(rows)
    IN  IF total > 0 THEN (200 * PositiveRatings(rows) + total) \div (2 * total) ELSE 0

\* statistics and performanceMetrics of the dashboard response
Statistics(rows) ==
    [totalRatings |-> Cardinality(rows),
     positiveRatings |-> PositiveRatings(rows),
     negativeRatings |-> NegativeRatings(rows),
     min |-> ParseIntOrZero(SqlMin(rows)),
     max |-> ParseIntOrZero(SqlMax(rows)),
     ratingDistribution |-> RatingDistribution(rows),
     customerSatisfaction |-> CustomerSatisfaction(rows)]

\* SELECT ... FROM stores s LEFT JOIN ratings r ... WHERE s.owner_id = $1 GROUP BY s.id, ...
StoresOfOwner(userId) == { s \in stores : s.owner_id = userId }

OwnerDashboardChain == << "authenticateToken", "requireRole" >>

\* the middleware, the store query and const store = storeResult.rows[0]: the query has
\* no ORDER BY, so any row of the result can come first
OwnerDashboard(p, cred) ==
    /\ Free(p)
    /\ LET r0 == [Idle EXCEPT !.op = "OWNER_DASHBOARD", !.cred = cred, !.pre = ratings,
                              !.preUsers = users, !.preStores = stores,
                              !.handler = Dispatch(StoresRoutes, "GET", <<"owner", "dashboard">>)]
           run == RunChain(OwnerDashboardChain, cred, { "store_owner" }, TRUE)
           r1 == [r0 EXCEPT !.stages = run.stages \o <<"database">>]
           found == StoresOfOwner(cred.id)
       IN  IF run.status # 0
           THEN req' = [req EXCEPT ![p] = Respond([r0 EXCEPT !.stages = run.stages], run.status,
                                                  RejectMessage(run.status))]
           ELSE IF found = {}
           THEN req' = [req EXCEPT ![p] = Respond(r1, 404, "No store found for this user")]
           ELSE \E store \in found :
                   req' = [req EXCEPT ![p] = [r1 EXCEPT !.existing = found, !.arg = store.id,
                                                        !.pc = "stats"]]
    /\ fetched' = NoWalk
    /\ UNCHANGED <<dbVars, accepted, clock, registered, ownerFk, clientVars>>

\* the statistics, trend, recent-rating, distribution and customer queries of the chosen
\* store and res.json
OwnerDashboardStats(p) ==
    /\ req[p].op = "OWNER_DASHBOARD" /\ req[p].pc = "stats"
    /\ LET rows == { r \in ratings : r.store_id = req[p].arg }
       IN  req' = [req EXCEPT ![p] =
                Respond([req[p] EXCEPT !.stats = Statistics(rows),
                                       !.keys = { "store", "statistics", "trends", "recentRatings",
                                                  "ratingDistribution", "customerInsights",
                                                  "performanceMetrics" }],
                        200, "")]
    /\ UNCHANGED <<dbVars, accepted, clock, fetched, registered, ownerFk, clientVars>>

\* GET /api/users/store: router.use(authenticateToken), the role test of the handler, the
\* store query and res.json({ store: result.rows[0] })
GetUsersStore(p, cred) ==
    /\ Free(p)
    /\ LET r0 == [Idle EXCEPT !.op = "USERS_STORE", !.cred = cred, !.pre = ratings,
                              !.preUsers = users, !.preStores = stores, !.handler = "usersStore"]
           found == StoresOfOwner(cred.id)
       IN  IF ~authenticateToken(cred)
           THEN req' = [req EXCEPT ![p] = Respond(r0, 401, "Access token required")]
           ELSE IF cred.role # "store_owner"
           THEN req' = [req EXCEPT ![p] =
                           Respond(r0, 403, "Access denied. Store owner role required.")]
           ELSE IF found = {}
           THEN req' = [req EXCEPT ![p] = Respond(r0, 404, "No store found for this user")]
           ELSE \E store \in found :
                   req' = [req EXCEPT ![p] =
                              Respond([r0 EXCEPT !.existing = found, !.arg = store.id,
                                                 !.keys = { "store" }], 200, "")]
    /\ fetched' = NoWalk
    /\ UNCHANGED <<dbVars, accepted, clock, registered, ownerFk, clientVars>>

----------------------------------------------------------------------------
(* The store owner endpoints: specification *)

OwnerCreds == { Token(SeedUser(4)), Token(SeedUser(5)), Token(SeedUser(2)), NoCred }

\* the administrator's store creations: a second store for user 4, and one without owner
OwnerStoreRequests ==
    { [cred |-> Token(SeedUser(1)), form |-> f] :
          f \in { StoreForm("City Market Downtown Branch", "second@city.com", 4),
                  StoreForm("City Market Downtown Branch", "third@city.com", 0) } }

\* updates and deletions of the seeded ratings by their authors
OwnerWrites ==
    { [seg |-> w.seg, cred |-> Token(SeedUser(w.user)), body |-> [rating |-> IntVal(v), comment |-> Null]] :
          w \in { [seg |-> "1", user |-> 2], [seg |-> "2", user |-> 3] }, v \in { 1, 3 } }

OwnerStep(p) ==
    \/ \E c \in OwnerStoreRequests : AdminCreateStore(p, c.cred, c.form)
    \/ AdminStoreExisting(p)
    \/ AdminStoreOwner(p)
    \/ AdminStoreInsert(p)
    \/ \E w \in OwnerWrites : PutRating(p, w.seg, w.cred, w.body.rating, w.body.comment)
    \/ PutWrite(p)
    \/ PutStats(p)
    \/ \E w \in OwnerWrites : DeleteRating(p, w.seg, w.cred)
    \/ DeleteWrite(p)
    \/ DeleteStats(p)
    \/ \E c \in OwnerCreds : OwnerDashboard(p, c)
    \/ OwnerDashboardStats(p)
    \/ \E c \in OwnerCreds : GetUsersStore(p, c)

\* one request at a time
NextOwner == \E p \in SeqSlots : OwnerStep(p)
SpecOwner == InitAdmin /\ [][NextOwner]_vars

\* C21 as stated: no user is the owner of more than one store, so the store returned by
\* the owner endpoints is the unique store of the caller.
C21_OneStorePerOwner ==
    /\ \A s, t \in stores : (s.owner_id # 0 /\ s.owner_id = t.owner_id) => s = t
    /\ \A p \in SeqSlots :
          (req[p].op \in { "OWNER_DASHBOARD", "USERS_STORE" } /\ Done(p) /\ req[p].status = 200) =>
              Cardinality(req[p].existing) = 1

\* C25: the dashboard reports positiveRatings = rows with rating >= 4, negativeRatings =
\* rows with rating <= 2, positive + negative + 3-star rows = totalRatings, a
\* ratingDistribution with exactly the keys 1..5 whose counts sum to totalRatings, min <=
\* max taken from the rows, and min = max = 0 and customerSatisfaction = 0 without rows.
C25_DashboardStatistics ==
    \A p \in SeqSlots :
        (req[p].op = "OWNER_DASHBOARD" /\ Done(p) /\ req[p].status = 200) =>
            LET rows == { r \in ratings : r.store_id = req[p].arg }
                st == req[p].stats
                d == st.ratingDistribution
            IN  /\ st.totalRatings = Cardinality(rows)
                /\ st.positiveRatings = Cardinality({ r \in rows : r.rating \in {4, 5} })
                /\ st.negativeRatings = Cardinality({ r \in rows : r.rating \in {1, 2} })
                /\ st.positiveRatings + st.negativeRatings
                     + Cardinality({ r \in rows : r.rating = 3 }) = st.totalRatings
                /\ DOMAIN d = 1..5
                /\ d[1] + d[2] + d[3] + d[4] + d[5] = st.totalRatings
                /\ st.min <= st.max
                /\ rows # {} => (\E r \in rows : r.rating = st.min) /\ (\E r \in rows : r.rating = st.max)
                                  /\ \A r \in rows : st.min <= r.rating /\ r.rating <= st.max
                /\ rows = {} => (st.min = 0 /\ st.max = 0 /\ st.customerSatisfaction = 0)

\* the dashboard of a store with a 4-star and a 1-star rating, and of one without ratings
C25_Witness ==
    \E p \in SeqSlots :
        /\ req[p].op = "OWNER_DASHBOARD" /\ Done(p) /\ req[p].status = 200
        /\ req[p].stats.positiveRatings = 1 /\ req[p].stats.negativeRatings = 1
        /\ req[p].stats.min = 1 /\ req[p].stats.max = 4

----------------------------------------------------------------------------
(* Row deletion under the foreign keys of the schema                        *)
(* (database/schema.sql 17-37, scripts/init-db.js 55-80,                     *)
(* scripts/setupDatabase.js 35-59)                                           *)

\* the referential action of stores.owner_id: schema.sql and init-db.js declare
\* REFERENCES users(id) with no ON DELETE clause, setupDatabase.js ON DELETE CASCADE
OwnerForeignKeys == { "NO ACTION", "CASCADE" }

\* ratings.user_id and ratings.store_id: ON DELETE CASCADE in all three scripts
CascadeRatings(rs, us, ss) ==
    { r \in rs : (\E u \in us : u.id = r.user_id) /\ (\E s \in ss : s.id = r.store_id) }

\* DELETE FROM users WHERE id = $1, run by a database client
DeleteUserRow(p, id) ==
    /\ Free(p)
    /\ LET r0 == [Idle EXCEPT !.op = "DELETE_USER_ROW", !.arg = id, !.pre = ratings,
                              !.preUsers = users, !.preStores = stores]
           gone == { u \in users : u.id = id }
           owned == { s \in stores : s.owner_id = id }
       IN  IF ownerFk = "NO ACTION" /\ gone # {} /\ owned # {}
           THEN /\ req' = [req EXCEPT ![p] =
                              Respond(r0, 500, "violates foreign key constraint")]
                /\ UNCHANGED <<users, stores, ratings>>
           ELSE /\ users' = users \ gone
                /\ stores' = IF gone = {} THEN stores ELSE stores \ owned
                /\ ratings' = CascadeRatings(ratings, users', stores')
                /\ req' = [req EXCEPT ![p] = Respond([r0 EXCEPT !.existing = gone], 200, "DELETE")]
    /\ fetched' = NoWalk
    /\ UNCHANGED <<nextRatingId, nextUserId, nextStoreId, accepted, clock, registered, ownerFk, clientVars>>

\* DELETE FROM stores WHERE id = $1, run by a database client
DeleteStoreRow(p, id) ==
    /\ Free(p)
    /\ LET r0 == [Idle EXCEPT !.op = "DELETE_STORE_ROW", !.arg = id, !.pre = ratings,
                              !.preUsers = users, !.preStores = stores]
           gone == { s \in stores : s.id = id }
       IN  /\ stores' = stores \ gone
           /\ ratings' = CascadeRatings(ratings, users, stores')
           /\ req' = [req EXCEPT ![p] = Respond([r0 EXCEPT !.existing = gone], 200, "DELETE")]
    /\ fetched' = NoWalk
    /\ UNCHANGED <<users, nextRatingId, nextUserId, nextStoreId, accepted, clock, registered, ownerFk, clientVars>>

\* the seeded database under either script that creates the tables
InitDelete ==
    /\ users = SeedUsers
    /\ stores = SeedStores
    /\ ratings = SeedRatings
    /\ nextRatingId = 4
    /\ nextUserId = 6
    /\ nextStoreId = 3
    /\ req = [p \in Slots |-> Idle]
    /\ accepted = [k \in UserIds \X StoreIds |-> 0]
    /\ clock = 5
    /\ fetched = NoWalk
    /\ registered = {}
    /\ ownerFk \in OwnerForeignKeys
    /\ InitClientAtRest

DeleteStep(p) ==
    \/ \E id \in 1..MaxUserId : DeleteUserRow(p, id)
    \/ \E id \in 1..MaxStoreId : DeleteStoreRow(p, id)

\* one statement at a time
NextDelete == \E p \in SeqSlots : DeleteStep(p)
SpecDelete == InitDelete /\ [][NextDelete]_vars

\* C22 as stated: deleting a user row deletes every rating authored by that user and,
\* when the user owns stores, keeps those stores with their owner_id cleared; deleting a
\* store row deletes every rating of that store; after any sequence of deletions every
\* remaining rating references an existing user and an existing store.
C22_DeletionCascades ==
    /\ \A r \in ratings : (\E u \in users : u.id = r.user_id) /\ (\E s \in stores : s.id = r.store_id)
    /\ \A p \in SeqSlots :
          /\ (req[p].op = "DELETE_USER_ROW" /\ Done(p)
                /\ \E u \in req[p].preUsers : u.id = req[p].arg) =>
                 /\ users = { u \in req[p].preUsers : u.id # req[p].arg }
                 /\ ratings = { r \in req[p].pre : r.user_id # req[p].arg }
                 /\ stores = { IF s.owner_id = req[p].arg THEN [s EXCEPT !.owner_id = 0] ELSE s :
                               s \in req[p].preStores }
          /\ (req[p].op = "DELETE_STORE_ROW" /\ Done(p)) =>
                 /\ stores = { s \in req[p].preStores : s.id # req[p].arg }
                 /\ ratings = { r \in req[p].pre : r.store_id # req[p].arg }
                 /\ users = req[p].preUsers

----------------------------------------------------------------------------
(* Properties of the password change and of login *)

\* the login body of the caller of request r with the given password
LoginAs(r, password) ==
    LET me == CHOOSE u \in users : u.id = r.cred.id
    IN  [NoForm EXCEPT !.email = me.email, !.password = password]

\* did the current password of the body match the hash stored when the request arrived
MatchedStoredHash(r) ==
    \E u \in r.preUsers : u.id = r.cred.id /\ Compare(r.form.password, u.password_hash)

PasswordRequest(p) ==
    /\ req[p].op = "PUT_PASSWORD" /\ Done(p) /\ Authed(p)
    /\ validatePasswordUpdate(req[p].form)
    /\ \E u \in req[p].preUsers : u.id = req[p].cred.id

\* C23 as stated: PUT /auth/password changes the stored hash only when the supplied
\* current password matches it; when it does not match the request is answered 400 and
\* the hash is unchanged; after a successful change, login with the new password succeeds
\* and login with the old password is answered 401.
C23_PasswordChangeLiteral ==
    \A p \in SeqSlots :
        PasswordRequest(p) =>
            LET r == req[p]
            IN  IF MatchedStoredHash(r)
                THEN /\ r.status = 200
                     /\ users = { IF u.id = r.cred.id
                                  THEN [u EXCEPT !.password_hash = Hash(r.form.newPassword)]
                                  ELSE u : u \in r.preUsers }
                     /\ LoginAnswer(LoginAs(r, r.form.newPassword)).status = 200
                     /\ LoginAnswer(LoginAs(r, r.form.password)).status = 401
                ELSE r.status = 400 /\ users = r.preUsers

\* C23 amended: as C23, with login by the old password answered 401 when the new
\* password differs from the old one (a change to the same password is accepted, and the
\* old password then still logs in).
C23_PasswordChange ==
    \A p \in SeqSlots :
        PasswordRequest(p) =>
            LET r == req[p]
            IN  IF MatchedStoredHash(r)
                THEN /\ r.status = 200
                     /\ users = { IF u.id = r.cred.id
                                  THEN [u EXCEPT !.password_hash = Hash(r.form.newPassword)]
                                  ELSE u : u \in r.preUsers }
                     /\ LoginAnswer(LoginAs(r, r.form.newPassword)).status = 200
                     /\ (r.form.newPassword # r.form.password =>
                            LoginAnswer(LoginAs(r, r.form.password)).status = 401)
                ELSE r.status = 400 /\ users = r.preUsers

\* after a change, a login with the old password has been answered 401
C23_Witness ==
    \E p \in SeqSlots :
        /\ req[p].op = "LOGIN" /\ Done(p) /\ req[p].status = 401
        /\ req[p].form.password = "User@123"
        /\ \E u \in users : /\ u.email = req[p].form.email
                             /\ u.password_hash = Hash("New@12345")
                             /\ \E v \in SeedUsers : v.id = u.id /\ v.password_hash = Hash("User@123")

\* does the body pass validateUserLogin and fail to log in
FailedLogin(form) == validateUserLogin(form) /\ LoginAnswer(form).status # 200

\* C28: POST /auth/login answers a request for an unregistered email and a request for a
\* registered email with a wrong password with the same status (401) and the same
\* message.
C28_LoginFailuresAlike ==
    /\ \A f, g \in LoginForms :
          (FailedLogin(f) /\ FailedLogin(g)) =>
              /\ LoginAnswer(f) = LoginAnswer(g)
              /\ LoginAnswer(f).status = 401
    /\ \A p \in SeqSlots :
          (req[p].op = "LOGIN" /\ Done(p) /\ validateUserLogin(req[p].form)
             /\ req[p].status # 200) =>
              /\ req[p].status = 401 /\ req[p].msg = "Invalid email or password"
              /\ req[p].token = NoCred

\* a login for a registered email with a wrong password has been refused while another
\* body of the model names an email that is not registered
C28_Witness ==
    \E p \in SeqSlots :
        /\ req[p].op = "LOGIN" /\ Done(p) /\ req[p].status = 401
        /\ \E u \in users : u.email = req[p].form.email
        /\ \E g \in LoginForms : FailedLogin(g) /\ ~\E u \in users : u.email = g.email

\* C24 as stated: a profile update (PUT /auth/profile or PUT /users/profile) whose name
\* is shorter than 20 or longer than 60 characters, or whose address is longer than 400
\* characters, is answered 400 without executing any database statement, so every stored
\* user name has length 20..60 and every stored address length at most 400.
C24_ProfileBounds ==
    /\ \A u \in users : Len(u.name) >= 20 /\ Len(u.name) <= 60 /\ Len(u.address) <= 400
    /\ \A p \in SeqSlots :
          (/\ req[p].op \in { "PUT_AUTH_PROFILE", "PUT_USERS_PROFILE" } /\ Done(p) /\ Authed(p)
           /\ \/ req[p].form.name # Absent
                   /\ (Len(req[p].form.name) < 20 \/ Len(req[p].form.name) > 60)
              \/ req[p].form.address # Absent /\ Len(req[p].form.address) > 400) =>
              /\ req[p].status = 400
              /\ \A i \in 1..Len(req[p].stages) : req[p].stages[i] # "database"
              /\ users = req[p].preUsers

\* C26 as stated: whenever POST /ratings/:storeId is answered 200 or 201, that request has
\* written the submitted rating to a row for (caller, store), under any interleaving with
\* a concurrent DELETE of the same rating by the same user.
C26_SuccessMeansWritten ==
    \A p \in Slots :
        (req[p].op = "POST" /\ Done(p) /\ req[p].status \in {200, 201}) =>
            \E x \in req[p].wrote : x.user_id = req[p].cred.id /\ x.store_id = req[p].arg

----------------------------------------------------------------------------
(* Properties of first-match dispatch *)

Methods == { "GET", "POST", "PUT", "DELETE" }
Segments == { "1", "user", "stats", "insights", "recommendations", "owner", "dashboard",
              "analytics", "ratings", "authenticated" }

\* the request paths below a router's mount point, up to two segments
Paths == { <<>> } \cup { <<a>> : a \in Segments } \cup { <<a, b>> : a \in Segments, b \in Segments }

\* is the handler of the i-th route served to some request
Reached(routes, i) ==
    \E m \in Methods, path \in Paths : Dispatch(routes, m, path) = routes[i].handler

\* C27 as stated: under first-match dispatch in registration order, every handler
\* registered in the ratings and stores routers is reached by some request: GET
\* /ratings/user/stats is served by the user-statistics handler, and an authenticated
\* store owner's GET /stores/:id/ratings is served by the owner-only paginated handler.
C27_EveryHandlerReached ==
    /\ \A i \in 1..Len(RatingsRoutes) : Reached(RatingsRoutes, i)
    /\ \A i \in 1..Len(StoresRoutes) : Reached(StoresRoutes, i)
    /\ \A p \in SeqSlots :
          /\ (req[p].op = "GET_RATINGS_USER" /\ Done(p) /\ Authed(p) /\ req[p].q.search = "stats") =>
                 req[p].handler = "userStats"
          /\ (req[p].op = "GET_STORE_RATINGS" /\ Done(p) /\ req[p].cred.role = "store_owner") =>
                 req[p].handler = "ownerStoreRatings"

----------------------------------------------------------------------------
(* The client AuthProvider (client/src/contexts/AuthContext.js,             *)
(* src/unnamed/part_000 118-201)                                             *)

\* useEffect(..., [token, fetchUserProfile]): with a token, set the Authorization default
\* and issue GET /api/auth/profile; without one, setLoading(false)
TokenEffect ==
    /\ effectDue
    /\ effectDue' = FALSE
    /\ IF token # NoCred
       THEN /\ authorization' = token
            /\ pending' = pending \cup { Request("profile", token) }
            /\ UNCHANGED loading
       ELSE /\ loading' = FALSE
            /\ UNCHANGED <<authorization, pending>>
    /\ UNCHANGED <<user, token, localStorage, serverVars>>

\* login(...) and register(...) up to the await of axios.post
LoginCall(cred) ==
    /\ pending' = pending \cup { Request("login", cred) }
    /\ Request("login", cred) \notin pending
    /\ UNCHANGED <<user, token, loading, localStorage, authorization, effectDue, serverVars>>

RegisterCall(cred) ==
    /\ pending' = pending \cup { Request("register", cred) }
    /\ Request("register", cred) \notin pending
    /\ UNCHANGED <<user, token, loading, localStorage, authorization, effectDue, serverVars>>

\* the continuation of login or register after the response: on 2xx setToken, setUser,
\* localStorage.setItem and the Authorization default; otherwise the catch block, a toast
SessionAnswered(r, ok) ==
    /\ r \in pending /\ r.kind \in { "login", "register" }
    /\ pending' = pending \ { r }
    /\ IF ok
       THEN /\ token' = r.cred
            /\ user' = UserData(r.cred)
            /\ localStorage' = r.cred
            /\ authorization' = r.cred
            /\ effectDue' = (effectDue \/ token # r.cred)
       ELSE UNCHANGED <<user, token, localStorage, authorization, effectDue>>
    /\ UNCHANGED <<loading, serverVars>>

\* logout(): setUser(null), setToken(null), localStorage.removeItem, delete the default
Logout ==
    /\ user # NullUser \/ token # NoCred \/ localStorage # NoCred
    /\ user' = NullUser
    /\ token' = NoCred
    /\ localStorage' = NoCred
    /\ authorization' = NoCred
    /\ effectDue' = (effectDue \/ token # NoCred)
    /\ UNCHANGED <<loading, pending, serverVars>>

SettledLoading_OnlyOnSuccess(ok) == IF ok THEN FALSE ELSE loading
\* finally { setLoading(false) } of fetchUserProfile, after either outcome
SettledLoading(ok) == FALSE

\* fetchUserProfile after a 2xx response: setUser(response.data.user)
ProfileFetched(r) ==
    /\ r \in pending /\ r.kind = "profile"
    /\ pending' = pending \ { r }
    /\ user' = UserData(r.cred)
    /\ loading' = SettledLoading(TRUE)
    /\ UNCHANGED <<token, localStorage, authorization, effectDue, serverVars>>

\* fetchUserProfile after a failed request: the catch block calls logout()
ProfileFailed(r) ==
    /\ r \in pending /\ r.kind = "profile"
    /\ pending' = pending \ { r }
    /\ user' = NullUser
    /\ token' = NoCred
    /\ localStorage' = NoCred
    /\ authorization' = NoCred
    /\ effectDue' = (effectDue \/ token # NoCred)
    /\ loading' = SettledLoading(FALSE)
    /\ UNCHANGED serverVars

----------------------------------------------------------------------------
(* The client AuthProvider: specifications *)

\* the accounts the sessions of the model belong to
ClientCreds == { Token(SeedUser(2)), Token(SeedUser(4)) }
ClientRequests == { Request(k, c) : k \in { "profile", "login", "register" }, c \in ClientCreds }

\* the first render: useState(localStorage.getItem('token')), with or without a stored
\* token, and the effect of the mount still to run
InitClient ==
    /\ users = SeedUsers
    /\ stores = SeedStores
    /\ ratings = {}
    /\ nextRatingId = 1
    /\ nextUserId = 6
    /\ nextStoreId = 3
    /\ req = [p \in Slots |-> Idle]
    /\ accepted = [k \in UserIds \X StoreIds |-> 0]
    /\ clock = 5
    /\ fetched = NoWalk
    /\ registered = {}
    /\ ownerFk = "NO ACTION"
    /\ user = NullUser
    /\ localStorage \in { NoCred } \cup ClientCreds
    /\ token = localStorage
    /\ loading = TRUE
    /\ authorization = NoCred
    /\ pending = {}
    /\ effectDue = TRUE

NextClient ==
    \/ TokenEffect
    \/ \E c \in ClientCreds : LoginCall(c)
    \/ \E c \in ClientCreds : RegisterCall(c)
    \/ \E r \in ClientRequests, ok \in BOOLEAN : SessionAnswered(r, ok)
    \/ Logout
    \/ \E r \in ClientRequests : ProfileFetched(r)
    \/ \E r \in ClientRequests : ProfileFailed(r)

SpecClient == InitClient /\ [][NextClient]_vars

\* every issued HTTP request eventually completes, and React runs a due effect
RequestCompletes(r) ==
    \/ \E ok \in BOOLEAN : SessionAnswered(r, ok)
    \/ ProfileFetched(r)
    \/ ProfileFailed(r)

SpecClientLive ==
    /\ SpecClient
    /\ WF_vars(TokenEffect)
    /\ \A r \in ClientRequests : WF_vars(RequestCompletes(r))

\* C29 as stated: in every reachable state of the client AuthProvider, user is non-null
\* only if token is non-null and localStorage holds a token, under any interleaving of
\* login, register, logout and the completion of an in-flight profile fetch.
C29_UserImpliesToken ==
    user # NullUser => (token # NoCred /\ localStorage # NoCred)

\* C30: loading starts true and eventually becomes false on every path, and once false it
\* never becomes true again.
C30_LoadingSettles ==
    /\ loading = TRUE
    /\ <>(loading = FALSE)
    /\ [](loading = FALSE => [](loading = FALSE))

\* the stored token's profile fetch has failed: the user is logged out and loading is off
C30_Witness ==
    /\ ~loading /\ user = NullUser /\ token = NoCred /\ localStorage = NoCred
    /\ authorization = NoCred /\ effectDue /\ pending = {}

====
